---- MODULE Spec2Model ----
(***************************************************************************)
(* FIshare: the shared application state (state.py), the discovery         *)
(* scanner with its liveness GC and the transfer service (network.py),     *)
(* the UI slots that edit the selection (main_window.py) and the AEAD      *)
(* stream (security.py).                                                   *)
(*                                                                         *)
(* Time is kept relative: a device carries age = time.time() - last_seen   *)
(* in whole seconds, saturating at TTL (every age >= TTL is treated alike  *)
(* by the only reader, prune_devices).  A ratio is a pair <<n, d>> with    *)
(* d > 0, compared by cross multiplication.                                *)
(***************************************************************************)
EXTENDS Integers, Sequences, FiniteSets, TLC

\* ------------------------------------------------------------ constants
TTL == 6
MAX_RETRIES == 3
CHUNK_SIZE == 65536
\* _ask_user_accept: range(300), one pass every 0.1 s
POLLS == 300

\* ------------------------------------------------------------ bounds
\* largest announced total / header size / chunk length an inbound peer uses
MaxTotal == 1
MaxSize == 1
MaxData == 2
\* largest number of names in an inbound send_request
MaxFiles == 1
\* largest number of frames the remote sender puts on one connection
MaxFrames == 4

AVAILABLE == "available"
BUSY == "busy"
COMPLETED == "completed"
ERROR == "error"
CANCELED == "canceled"

LocalIP == "10.0.0.1"
ListenPort == "49222"
Hosts == {"10.0.0.2", "10.0.0.3"}

\* f"{adv_host}:{adv_port}"
DeviceId(host, port) == host \o ":" \o port
DeviceIds == {DeviceId(h, ListenPort) : h \in Hosts}

SWorkers == {"s1"}
RWorkers == {"r1"}

VARIABLES
    status, devices, selected_device_ids, selected_files,
    progress, transfer_bytes, transfer_status,
    lock,          \* holder of AppState._lock across steps: "free" or "gc"
    gc,            \* Scanner._gc: pc; tmp, the filtered list not yet stored; the
                   \* device ids (pruned) and progress keys (rows) this pass removed
    since_beacon,  \* seconds since the last beacon registered for a device id
    sender,        \* per send worker: position and locals of on_send / send_to
    receiver,      \* per receive worker: position and locals of _handle_peer
    aead,          \* per endpoint of a session: the AEADStream counters
    net,           \* every frame the remote sender has put on the connection
    back,          \* every frame the receive worker has put on the connection
    peer,          \* the remote sender: "none", "open" or "closed"
    dec_log,       \* per endpoint: the decrypt calls made, in order
    cfg,           \* TransferService.__init__: is a ui_root, a history store given
    svc,           \* the stop events and the four background loops
    hs             \* per end of a connection: its call of key_agree

netVars == <<aead, net, back, peer, dec_log, svc, hs>>
vars == <<status, devices, selected_device_ids, selected_files, progress,
          transfer_bytes, transfer_status, lock, gc, since_beacon, sender,
          receiver, netVars, cfg>>

\* ------------------------------------------------------------ helpers
Put(f, k, v) == [x \in DOMAIN f \cup {k} |-> IF x = k THEN v ELSE f[x]]
Pop(f, k) == [x \in DOMAIN f \ {k} |-> f[x]]
Restrict(f, S) == [x \in DOMAIN f \cap S |-> f[x]]
Elems(s) == {s[i] : i \in 1..Len(s)}
RECURSIVE Filter(_, _)
Filter(s, S) ==
    IF s = <<>> THEN <<>>
    ELSE IF Head(s) \in S THEN <<Head(s)>> \o Filter(Tail(s), S)
         ELSE Filter(Tail(s), S)
RECURSIVE Remove(_, _)
Remove(s, x) ==
    IF s = <<>> THEN <<>>
    ELSE IF Head(s) = x THEN Tail(s) ELSE <<Head(s)>> \o Remove(Tail(s), x)
RECURSIVE Sum(_)
Sum(s) == IF s = <<>> THEN 0 ELSE Head(s) + Sum(Tail(s))
Sat(n) == IF n > TTL THEN TTL ELSE n

Zero == <<0, 1>>
One == <<1, 1>>
RLess(a, b) == a[1] * b[2] < b[1] * a[2]
\* Python's min(a, b) / max(a, b): the first argument unless the second is smaller / larger
PyMin(a, b) == IF RLess(b, a) THEN b ELSE a
PyMax(a, b) == IF RLess(a, b) THEN b ELSE a
NoClamp(ratio) == ratio
Clamp(ratio) == PyMax(Zero, PyMin(One, ratio))

\* ------------------------------------------------------------ AppState
set_status(s) == lock = "free" /\ status' = s

upsert_device(id, dev) ==
    /\ lock = "free"
    /\ devices' = Put(devices, id, [dev EXCEPT !.age = 0])

update_progress(device_id, ratio, bytes_transferred) ==
    /\ lock = "free"
    /\ progress' = Put(progress, device_id, Clamp(ratio))
    /\ transfer_bytes' = IF bytes_transferred > 0
                         THEN Put(transfer_bytes, device_id, bytes_transferred)
                         ELSE transfer_bytes

\* float(self.progress.get(device_id, 0.0))
get_progress(device_id) ==
    IF device_id \in DOMAIN progress THEN progress[device_id] ELSE Zero

start_transfer(device_id) ==
    /\ lock = "free"
    /\ transfer_bytes' = Put(transfer_bytes, device_id, 0)
    /\ transfer_status' = Put(transfer_status, device_id, COMPLETED)

set_transfer_status(device_id, st) ==
    /\ lock = "free"
    /\ transfer_status' = Put(transfer_status, device_id, st)

\* the value a caller reads: the entry, or the COMPLETED default
get_transfer_status(device_id) ==
    IF device_id \in DOMAIN transfer_status THEN transfer_status[device_id] ELSE COMPLETED

clear_progress(device_id) ==
    /\ lock = "free"
    /\ progress' = Pop(progress, device_id)
    /\ transfer_bytes' = Pop(transfer_bytes, device_id)
    /\ transfer_status' = Pop(transfer_status, device_id)

\* prune_devices, lines 101-103 and the right-hand side of line 104
LiveOffByOne(devs, ttl) == {k \in DOMAIN devs : devs[k].age <= ttl}
Live(devs, ttl) == {k \in DOMAIN devs : devs[k].age < ttl}
PruneKeepProgress(prog, live) == prog
PruneProgress(prog, live) == Restrict(prog, live)

\* ------------------------------------------------------------ Scanner
\* _gc: prune_devices(ttl_seconds=6.0) up to the evaluation of the new
\* selection list; the lock stays held until the list is stored
GcCompute ==
    /\ gc.pc = "idle" /\ lock = "free"
    /\ LET live == Live(devices, TTL) IN
        /\ devices' = Restrict(devices, live)
        /\ progress' = PruneProgress(progress, live)
        /\ gc' = [pc |-> "store", tmp |-> Filter(selected_device_ids, live),
                  pruned |-> DOMAIN devices \ live,
                  rows |-> DOMAIN progress \ DOMAIN progress']
    /\ lock' = "gc"
    /\ UNCHANGED <<status, selected_device_ids, selected_files, transfer_bytes,
                   transfer_status, since_beacon, sender, receiver, netVars, cfg>>

\* the store of line 104, the release of the lock, then time.sleep(2)
GcIdle == [pc |-> "idle", tmp |-> <<>>, pruned |-> {}, rows |-> {}]
GcStore ==
    /\ gc.pc = "store"
    /\ selected_device_ids' = gc.tmp
    /\ gc' = GcIdle
    /\ lock' = "free"
    /\ UNCHANGED <<status, devices, selected_files, progress, transfer_bytes,
                   transfer_status, since_beacon, sender, receiver, netVars, cfg>>

\* a datagram: the JSON payload and the source address; "" is a key that
\* is absent
Payloads == [type : {"fishare_adv", "other"},
             host : Hosts \cup {LocalIP, ""},
             port : {ListenPort},
             status : {AVAILABLE, BUSY, "away", "restricted", ""}]

\* payload.get("status", default)
GetStatus(payload, default) == IF payload.status = "" THEN default ELSE payload.status

ParseStatus(raw) == IF raw \in {AVAILABLE, BUSY} THEN raw ELSE BUSY

\* line 145: payload.get("host") or addr[0]
AdvHost(payload, addr) == IF payload.host # "" THEN payload.host ELSE addr

IsSelfHost(adv_host, adv_port) == adv_host = LocalIP
\* line 148, get_local_ip() giving the one address of this host
IsSelf(adv_host, adv_port) == adv_host = LocalIP /\ adv_port = ListenPort

\* what one pass of _listen leaves alone
LUnchanged == <<status, selected_device_ids, selected_files, progress, transfer_bytes,
                transfer_status, lock, gc, sender, receiver, aead, net, back, peer,
                dec_log, cfg>>

\* lines 141-161: a fishare_adv beacon that is not this host's own
listen(payload, addr) ==
    LET adv_host == AdvHost(payload, addr)
        id == DeviceId(adv_host, payload.port)
    IN  /\ payload.type = "fishare_adv"
        /\ ~IsSelf(adv_host, payload.port)
        /\ upsert_device(id, [host |-> adv_host,
                              status |-> ParseStatus(GetStatus(payload, BUSY)),
                              age |-> 0])
        /\ since_beacon' = [k \in DOMAIN since_beacon |->
                                IF k = id THEN 0 ELSE since_beacon[k]]
        /\ UNCHANGED <<LUnchanged, hs>>

\* _listen: one datagram, for the specifications that leave the loops alone
Listen(payload, addr) == listen(payload, addr) /\ UNCHANGED svc

\* netcore/scanner.py, _listen: one datagram.  The device is keyed by the
\* source address, AppStatus(...) of core/state.py raises on a value that is
\* none of its three, and the except clause drops the datagram
ListenNetcore(payload, addr) ==
    LET id == DeviceId(addr, payload.port)
        raw == GetStatus(payload, AVAILABLE)
    IN  /\ payload.type = "fishare_adv"
        /\ raw \in {AVAILABLE, BUSY, "restricted"}
        /\ upsert_device(id, [host |-> addr, status |-> raw, age |-> 0])
        /\ since_beacon' = [k \in DOMAIN since_beacon |->
                                IF k = id THEN 0 ELSE since_beacon[k]]
        /\ UNCHANGED <<status, selected_device_ids, selected_files, progress,
                       transfer_bytes, transfer_status, lock, gc, sender, receiver, netVars, cfg>>

\* netcore/scanner.py, _gc: state.devices replaced by its live entries
GcNetcore ==
    /\ devices' = Restrict(devices, Live(devices, TTL))
    /\ UNCHANGED <<status, selected_device_ids, selected_files, progress,
                   transfer_bytes, transfer_status, lock, gc, since_beacon, sender,
                   receiver, netVars, cfg>>

\* dt seconds pass
Tick(dt) ==
    /\ devices' = [k \in DOMAIN devices |->
                      [devices[k] EXCEPT !.age = Sat(devices[k].age + dt)]]
    /\ since_beacon' = [k \in DOMAIN since_beacon |-> Sat(since_beacon[k] + dt)]
    /\ UNCHANGED <<status, selected_device_ids, selected_files, progress,
                   transfer_bytes, transfer_status, lock, gc, sender, receiver, netVars, cfg>>

\* ------------------------------------------------------------ UI slots
FileChoices == {<<0>>, <<CHUNK_SIZE + 1>>}

on_status_toggled(s) ==
    /\ set_status(s)
    /\ UNCHANGED <<devices, selected_device_ids, selected_files, progress,
                   transfer_bytes, transfer_status, lock, gc, since_beacon,
                   sender, receiver, netVars, cfg>>

\* pick_files: the assignment of line 491, made without the lock
pick_files(files) ==
    /\ selected_files' = files
    /\ UNCHANGED <<status, devices, selected_device_ids, progress, transfer_bytes,
                   transfer_status, lock, gc, since_beacon, sender, receiver, netVars, cfg>>

\* add_selected_device: the append of line 509, made without the lock
add_selected_device(device_id) ==
    /\ device_id \in DOMAIN devices
    /\ devices[device_id].status = AVAILABLE
    /\ device_id \notin Elems(selected_device_ids)
    /\ selected_device_ids' = Append(selected_device_ids, device_id)
    /\ UNCHANGED <<status, devices, selected_files, progress, transfer_bytes,
                   transfer_status, lock, gc, since_beacon, sender, receiver, netVars, cfg>>

\* remove_selected_device: the remove of line 520, made without the lock
remove_selected_device(device_id) ==
    /\ device_id \in Elems(selected_device_ids)
    /\ selected_device_ids' = Remove(selected_device_ids, device_id)
    /\ UNCHANGED <<status, devices, selected_files, progress, transfer_bytes,
                   transfer_status, lock, gc, since_beacon, sender, receiver, netVars, cfg>>

\* on_send up to the start of the send-ui thread; before is a ghost, the
\* status ahead of the first of the send-ui threads now running
on_send(w) ==
    /\ sender[w].pc = "idle"
    /\ selected_files # <<>> /\ selected_device_ids # <<>>
    /\ set_status(BUSY)
    /\ sender' = [sender EXCEPT ![w].pc = "loop",
                                ![w].prev_status = status,
                                ![w].before =
                                    LET running == {x \in DOMAIN sender \ {w} : sender[x].pc # "idle"}
                                    IN  IF running = {} THEN status
                                        ELSE sender[CHOOSE x \in running : TRUE].before,
                                ![w].queue = Filter(selected_device_ids, DOMAIN devices)]
    /\ UNCHANGED <<devices, selected_device_ids, selected_files, progress,
                   transfer_bytes, transfer_status, lock, gc, since_beacon, receiver, netVars, cfg>>

\* worker(): the next device of the loop; send_to begins (lines 304-306)
SNextDevice(w) ==
    /\ sender[w].pc = "loop" /\ sender[w].queue # <<>>
    /\ sender' = [sender EXCEPT ![w].pc = "attempt",
                                ![w].dev = Head(sender[w].queue),
                                ![w].queue = Tail(sender[w].queue),
                                ![w].files = selected_files,
                                ![w].total = Sum(selected_files),
                                ![w].attempt = 0,
                                ![w].result = "none",
                                ![w].conns = 0, ![w].recs = 0,
                                ![w].hdr_sum = 0, ![w].cause = "none", ![w].out = <<>>]
    /\ UNCHANGED <<status, devices, selected_device_ids, selected_files, progress,
                   transfer_bytes, transfer_status, lock, gc, since_beacon, receiver, netVars, cfg>>

\* send_to line 305 when a selected path no longer exists: os.path.getsize
\* raises outside the try, the exception leaves send_to and worker(), and the
\* send-ui thread ends before set_status(prev_status)
SRaise(w) ==
    /\ sender[w].pc = "loop" /\ sender[w].queue # <<>>
    /\ sender' = [sender EXCEPT ![w].pc = "idle",
                                ![w].dev = Head(sender[w].queue),
                                ![w].queue = <<>>,
                                ![w].files = selected_files,
                                ![w].attempt = 0,
                                ![w].result = "raised",
                                ![w].conns = 0, ![w].recs = 0,
                                ![w].hdr_sum = 0, ![w].cause = "none", ![w].out = <<>>]
    /\ UNCHANGED <<status, devices, selected_device_ids, selected_files, progress,
                   transfer_bytes, transfer_status, lock, gc, since_beacon, receiver, netVars, cfg>>

\* worker(): after the loop, set_status(prev_status)
SFinish(w) ==
    /\ sender[w].pc = "loop" /\ sender[w].queue = <<>>
    /\ set_status(sender[w].prev_status)
    /\ sender' = [sender EXCEPT ![w].pc = "idle"]
    /\ UNCHANGED <<devices, selected_device_ids, selected_files, progress,
                   transfer_bytes, transfer_status, lock, gc, since_beacon, receiver, netVars, cfg>>

\* ------------------------------------------------------------ send_to
SUnchanged == <<status, devices, selected_device_ids, selected_files, lock, gc,
                since_beacon, receiver, netVars, cfg>>

\* `if self.history: self.history.add_record(...)` on the count of records
\* this call has appended
add_record(recs) == IF cfg.history THEN recs + 1 ELSE recs

\* line 311: start_transfer at the top of every attempt
SStart(w) ==
    /\ sender[w].pc = "attempt"
    /\ start_transfer(sender[w].dev)
    /\ sender' = [sender EXCEPT ![w].pc = "connect"]
    /\ UNCHANGED <<progress>> /\ UNCHANGED SUnchanged

\* os.path.getsize of the i-th path now, 0 past the end of the list
SizeNow(files, i) == IF i <= Len(files) THEN files[i] ELSE 0

\* lines 351-354: the header frame of the i-th path as the attempt's record of
\* frames keeps it, the index for the basename and the size of the file now;
\* nothing past the end of the list
HeaderOut(files, i) ==
    IF i <= Len(files) THEN <<<<"file_header", i, files[i]>>>> ELSE <<>>

\* lines 313-326: connect, key_agree, send_request, the response frame; on
\* accept:true lines 349-354, the first file's header.  The outcome "fail" is
\* a connect, handshake or socket error, "garbled" a response frame that
\* fails authentication or does not parse.
SConnect(w, outcome) ==
    /\ sender[w].pc = "connect"
    /\ sender' = [sender EXCEPT
          ![w].pc = CASE outcome \in {"fail", "garbled"} -> "failed"
                      [] outcome = "reject" -> "rej_status"
                      [] OTHER -> "stream",
          ![w].conns = sender[w].conns + 1,
          ![w].cause = CASE outcome = "fail" -> "transport"
                         [] outcome = "garbled" -> "crypto"
                         [] OTHER -> "none",
          ![w].hdr_sum = IF outcome = "accept" THEN SizeNow(sender[w].files, 1) ELSE 0,
          ![w].out = IF outcome = "accept" THEN HeaderOut(sender[w].files, 1) ELSE <<>>,
          ![w].sent_total = 0, ![w].idx = 1, ![w].off = 0]
    /\ UNCHANGED <<progress, transfer_bytes, transfer_status>>
    /\ UNCHANGED SUnchanged

\* line 329
SRejectStatus(w) ==
    /\ sender[w].pc = "rej_status"
    /\ set_transfer_status(sender[w].dev, CANCELED)
    /\ sender' = [sender EXCEPT ![w].pc = "rej_progress"]
    /\ UNCHANGED <<progress, transfer_bytes>> /\ UNCHANGED SUnchanged

\* lines 330-347: update_progress(1.0, 0), return False
SRejectProgress(w) ==
    /\ sender[w].pc = "rej_progress"
    /\ update_progress(sender[w].dev, One, 0)
    /\ sender' = [sender EXCEPT ![w].pc = "loop", ![w].result = CANCELED,
                                ![w].recs = add_record(sender[w].recs)]
    /\ UNCHANGED <<transfer_status>> /\ UNCHANGED SUnchanged

\* f.read() of whatever is left of the file
ReadRest(size, off) == size - off
\* line 358: f.read(self.CHUNK_SIZE) at offset off of a file of size bytes
Read(size, off) == IF size - off < CHUNK_SIZE THEN size - off ELSE CHUNK_SIZE

\* lines 358-364: one chunk read, sent and published
SChunk(w) ==
    LET s == sender[w]
        n == Read(s.files[s.idx], s.off)
    IN  /\ s.pc = "stream" /\ s.idx <= Len(s.files) /\ s.off < s.files[s.idx]
        /\ IF s.total > 0
           THEN update_progress(s.dev, <<s.sent_total + n, s.total>>, s.sent_total + n)
           ELSE UNCHANGED <<progress, transfer_bytes>>
        /\ sender' = [sender EXCEPT ![w].sent_total = s.sent_total + n,
                                    ![w].off = s.off + n,
                                    ![w].out = Append(s.out, <<"file_chunk", s.idx, s.off, n>>)]
        /\ UNCHANGED <<transfer_status>> /\ UNCHANGED SUnchanged

\* lines 359-360 and 351-354: end of file, the next file's header
SNextFile(w) ==
    LET s == sender[w] IN
        /\ s.pc = "stream" /\ s.idx <= Len(s.files) /\ s.off >= s.files[s.idx]
        /\ sender' = [sender EXCEPT ![w].idx = s.idx + 1, ![w].off = 0,
                                    ![w].hdr_sum = s.hdr_sum + SizeNow(s.files, s.idx + 1),
                                    ![w].out = s.out \o HeaderOut(s.files, s.idx + 1)]
        /\ UNCHANGED <<progress, transfer_bytes, transfer_status>>
        /\ UNCHANGED SUnchanged

\* a socket or file error while streaming
SStreamFail(w) ==
    /\ sender[w].pc = "stream"
    /\ sender' = [sender EXCEPT ![w].pc = "failed", ![w].cause = "stream"]
    /\ UNCHANGED <<progress, transfer_bytes, transfer_status>>
    /\ UNCHANGED SUnchanged

\* line 368: the final update once every file is streamed
FinalRatioIfTotal(s) == IF s.total > 0 THEN One ELSE Zero
FinalRatio(s) == One
SFinal(w) ==
    LET s == sender[w] IN
        /\ s.pc = "stream" /\ s.idx > Len(s.files)
        /\ update_progress(s.dev, FinalRatio(s), s.sent_total)
        /\ sender' = [sender EXCEPT ![w].pc = "clear"]
        /\ UNCHANGED <<transfer_status>> /\ UNCHANGED SUnchanged

\* lines 370-386: the history record, clear_progress, return True
SClear(w) ==
    /\ sender[w].pc = "clear"
    /\ clear_progress(sender[w].dev)
    /\ sender' = [sender EXCEPT ![w].pc = "loop", ![w].result = COMPLETED,
                                ![w].recs = add_record(sender[w].recs)]
    /\ UNCHANGED SUnchanged

\* a loop of one attempt more
OneMoreAttempt(attempt) == attempt < MAX_RETRIES
\* line 308: range(self.MAX_RETRIES) has a value after attempt
MoreAttempts(attempt) == attempt + 1 < MAX_RETRIES
\* line 390
LastAttempt(attempt) == attempt = MAX_RETRIES - 1

\* lines 388-408: the except clause of one attempt
SExcept(w) ==
    LET s == sender[w] IN
        /\ s.pc = "failed"
        /\ IF LastAttempt(s.attempt)
           THEN set_transfer_status(s.dev, ERROR)
           ELSE UNCHANGED transfer_status
        /\ sender' = [sender EXCEPT
              ![w].attempt = s.attempt + 1,
              ![w].cause = "none",
              ![w].recs = IF LastAttempt(s.attempt) THEN add_record(s.recs) ELSE s.recs,
              ![w].pc = IF MoreAttempts(s.attempt) THEN "attempt" ELSE "exh_status"]
        /\ UNCHANGED <<progress, transfer_bytes>> /\ UNCHANGED SUnchanged

\* line 412
SExhaustStatus(w) ==
    /\ sender[w].pc = "exh_status"
    /\ set_transfer_status(sender[w].dev, ERROR)
    /\ sender' = [sender EXCEPT ![w].pc = "exh_clear"]
    /\ UNCHANGED <<progress, transfer_bytes>> /\ UNCHANGED SUnchanged

\* lines 413-414: clear_progress, return False
SExhaustClear(w) ==
    /\ sender[w].pc = "exh_clear"
    /\ clear_progress(sender[w].dev)
    /\ sender' = [sender EXCEPT ![w].pc = "loop", ![w].result = ERROR]
    /\ UNCHANGED SUnchanged

\* another process rewrites the i-th file of a call in progress
FileSizes == {0, CHUNK_SIZE + 1}
FileChanged(w, i, size) ==
    /\ sender[w].pc \notin {"idle", "loop"}
    /\ i \in 1..Len(sender[w].files) /\ size # sender[w].files[i]
    /\ sender' = [sender EXCEPT ![w].files[i] = size]
    /\ UNCHANGED <<progress, transfer_bytes, transfer_status>>
    /\ UNCHANGED SUnchanged

\* ------------------------------------------------------------ messages
\* a decoded JSON object, every key read through .get with the default the
\* reader gives: type, files (only its length is used), total, size, data;
\* file is the name split at its separators, "/" first when it is absolute,
\* and <<>> when the key is absent
DataChoices == {[i \in 1..n |-> "x"] : n \in 0..MaxData}
Msg(t, nf, tot, sz, d) ==
    [type |-> t, files |-> nf, total |-> tot, size |-> sz, data |-> d, accept |-> FALSE,
     file |-> <<>>]
\* {"accept": bool(accepted)}
Response(b) == [Msg("none", 0, 0, 0, <<>>) EXCEPT !.accept = b]
RequestMsgs == {Msg("send_request", n, t, 0, <<>>) : n \in 0..MaxFiles, t \in 0..MaxTotal}
\* {"file": fname, "size": size}
Header(fname, sz) == [Msg("none", 0, 0, sz, <<>>) EXCEPT !.file = fname]
HeaderMsgs == {Header(<<"a">>, sz) : sz \in 0..MaxSize}
\* headers whose file field leaves the directory it is joined to
TraversalMsgs == {Header(f, 0) : f \in {<<"..", "a">>, <<"/", "etc", "a">>}}
ChunkMsgs == {Msg("none", 0, 0, 0, d) : d \in DataChoices}
OtherMsg == Msg("other", 0, 0, 0, <<>>)
Msgs == RequestMsgs \cup HeaderMsgs \cup ChunkMsgs \cup {OtherMsg}
\* what Proto.recv_json gives its caller: a message, or an exception
Raised == [ok |-> FALSE, msg |-> OtherMsg]
Returned(m) == [ok |-> TRUE, msg |-> m]
RecvResults == {Raised} \cup {Returned(m) : m \in Msgs}

\* ------------------------------------------------------------ _handle_peer
\* the handlers below leave the connection's variables to the action that
\* supplies the frame; RQuiet is for the steps that touch no connection
RUnchanged == <<status, devices, selected_device_ids, selected_files, lock, gc,
                since_beacon, sender, cfg>>
RQuiet == <<RUnchanged, netVars>>

\* _server_loop: accept() hands the connection to a new worker thread
accept(w, host) ==
    /\ receiver[w].pc \in {"idle", "done"}
    /\ receiver' = [receiver EXCEPT ![w] =
          [pc |-> "request", host |-> host, nfiles |-> 0, total |-> 0,
           received_total |-> 0, remaining |-> 0, idx |-> 1, result |-> "none",
           written |-> <<>>, opened |-> <<>>, dialog |-> "none", polls |-> 0, accepted |-> FALSE,
           busy |-> FALSE, timed_out |-> FALSE, size |-> 0]]
    /\ UNCHANGED <<progress, transfer_bytes, transfer_status>>
    /\ UNCHANGED RUnchanged

AnyType(m) == TRUE
\* line 232
IsRequest(m) == m.type = "send_request"

\* lines 229-239: key_agree and the first frame
handle_request(w, res) ==
    /\ receiver[w].pc = "request"
    /\ receiver' = [receiver EXCEPT ![w] =
          IF ~res.ok THEN [@ EXCEPT !.pc = "exc_status"]
          ELSE IF ~IsRequest(res.msg)
               THEN [@ EXCEPT !.pc = "done", !.result = "closed"]
               ELSE [@ EXCEPT !.pc = "consent", !.nfiles = res.msg.files,
                                !.total = res.msg.total]]
    /\ UNCHANGED <<progress, transfer_bytes, transfer_status>>
    /\ UNCHANGED RUnchanged

NoBusyCheck(s) == FALSE
\* line 186
BusyCheck(s) == s = BUSY

\* lines 184-206: BUSY answers False, no ui_root answers True, else the
\* dialog's answer (False on timeout)
ask_user_accept(oracle) ==
    IF BusyCheck(status) THEN FALSE ELSE IF ~cfg.ui_root THEN TRUE ELSE oracle

\* lines 242-247: the decision and the send_response frame
handle_consent(w, oracle, sent) ==
    /\ receiver[w].pc = "consent"
    /\ receiver' = [receiver EXCEPT ![w] =
          IF ~sent THEN [@ EXCEPT !.pc = "exc_status"]
          ELSE IF ~ask_user_accept(oracle)
               THEN [@ EXCEPT !.pc = "done", !.result = "rejected"]
               ELSE [@ EXCEPT !.pc = "start"]]
    /\ UNCHANGED <<progress, transfer_bytes, transfer_status>>
    /\ UNCHANGED RUnchanged

\* ------------------------------------------------------------ _ask_user_accept
\* the same lines in steps.  receiver[w].dialog is the result dict shared with
\* the UI thread: "none" before the event is posted, "pending" without the
\* key "decided", "yes" / "no" with it; busy is what line 186 found
RConsentQuiet == <<progress, transfer_bytes, transfer_status, RQuiet>>

\* lines 186-198: the two early returns, or the event posted to the UI
RAsk(w) ==
    /\ receiver[w].pc = "consent"
    /\ receiver' = [receiver EXCEPT ![w] =
          IF BusyCheck(status)
          THEN [@ EXCEPT !.pc = "respond", !.accepted = FALSE, !.busy = status = BUSY]
          ELSE IF ~cfg.ui_root
               THEN [@ EXCEPT !.pc = "respond", !.accepted = TRUE, !.busy = status = BUSY]
               ELSE [@ EXCEPT !.pc = "poll", !.dialog = "pending", !.polls = 0,
                                !.busy = status = BUSY]]
    /\ UNCHANGED RConsentQuiet

\* the UI thread writes the user's decision into the result dict, at any
\* time after the event was posted
UIDecide(w, yes) ==
    /\ receiver[w].dialog = "pending"
    /\ receiver' = [receiver EXCEPT ![w].dialog = IF yes THEN "yes" ELSE "no"]
    /\ UNCHANGED RConsentQuiet

\* lines 201-204: one pass of the loop, a decided result returned or a sleep
RPoll(w) ==
    LET r == receiver[w] IN
    /\ r.pc = "poll" /\ r.polls < POLLS
    /\ receiver' = [receiver EXCEPT ![w] =
          IF r.dialog \in {"yes", "no"}
          THEN [@ EXCEPT !.pc = "respond", !.accepted = r.dialog = "yes", !.polls = 0]
          ELSE [@ EXCEPT !.polls = r.polls + 1]]
    /\ UNCHANGED RConsentQuiet

FinalCheck(dialog) == dialog = "yes"
\* line 206
Timeout(dialog) == FALSE

\* line 206: the loop has run out
RTimeout(w) ==
    LET r == receiver[w] IN
    /\ r.pc = "poll" /\ r.polls = POLLS
    /\ receiver' = [receiver EXCEPT ![w].pc = "respond",
                                    ![w].accepted = Timeout(r.dialog),
                                    ![w].polls = 0, ![w].timed_out = TRUE]
    /\ UNCHANGED RConsentQuiet

\* lines 246-249: send_response, return when not accepted
RRespond(w, sent) ==
    /\ receiver[w].pc = "respond"
    /\ receiver' = [receiver EXCEPT ![w] =
          IF ~sent THEN [@ EXCEPT !.pc = "exc_status"]
          ELSE IF ~receiver[w].accepted
               THEN [@ EXCEPT !.pc = "done", !.result = "rejected"]
               ELSE [@ EXCEPT !.pc = "start"]]
    /\ UNCHANGED RConsentQuiet

\* lines 250-252
RStart(w) ==
    /\ receiver[w].pc = "start"
    /\ start_transfer(receiver[w].host)
    /\ receiver' = [receiver EXCEPT ![w].pc = "header", ![w].received_total = 0,
                                    ![w].idx = 1]
    /\ UNCHANGED <<progress>> /\ UNCHANGED RQuiet

\* cfg.download_dir
DownloadDir == <<"/", "home", "Downloads">>
\* the file a path names: ".." leaves the directory reached so far
RECURSIVE Resolved(_, _)
Resolved(at, path) ==
    IF path = <<>> THEN at
    ELSE IF Head(path) = ".."
         THEN Resolved(IF Len(at) > 1 THEN SubSeq(at, 1, Len(at) - 1) ELSE at, Tail(path))
         ELSE Resolved(Append(at, Head(path)), Tail(path))
\* line 257: os.path.join(download_dir, fname), as open() resolves it
DestPath(fname) ==
    IF Head(fname) = "/" THEN Resolved(<<"/">>, Tail(fname))
    ELSE Resolved(DownloadDir, fname)

\* lines 255-263: a file_header; a message without a file name raises at the
\* join; the file is created; a size <= 0 reads no chunk
handle_header(w, res) ==
    LET r == receiver[w] IN
    /\ r.pc = "header" /\ r.idx <= r.nfiles
    /\ receiver' = [receiver EXCEPT ![w] =
          IF ~res.ok \/ res.msg.file = <<>> THEN [@ EXCEPT !.pc = "exc_status"]
          ELSE IF res.msg.size > 0
               THEN [@ EXCEPT !.pc = "chunks", !.remaining = res.msg.size,
                                !.size = res.msg.size,
                                !.opened = Append(r.opened, DestPath(res.msg.file)),
                                !.written = Append(r.written, <<>>)]
               ELSE [@ EXCEPT !.idx = r.idx + 1, !.remaining = 0,
                                !.size = res.msg.size,
                                !.opened = Append(r.opened, DestPath(res.msg.file)),
                                !.written = Append(r.written, <<>>)]]
    /\ UNCHANGED <<progress, transfer_bytes, transfer_status>>
    /\ UNCHANGED RUnchanged

handle_chunk_swallow(w, res) ==
    LET r == receiver[w]
        data == res.msg.data
        got == r.received_total + Len(data)
        left == r.remaining - Len(data)
        n == Len(r.written)
    IN
    /\ r.pc = "chunks"
    /\ receiver' = [receiver EXCEPT ![w] =
          [@ EXCEPT !.written = [r.written EXCEPT ![n] = r.written[n] \o data],
                    !.received_total = got,
                    !.remaining = IF left > 0 THEN left ELSE 0,
                    !.pc = IF left > 0 THEN "chunks" ELSE "header",
                    !.idx = IF left > 0 THEN r.idx ELSE r.idx + 1]]
    /\ IF r.total > 0
       THEN update_progress(r.host, <<got, r.total>>, got)
       ELSE UNCHANGED <<progress, transfer_bytes>>
    /\ UNCHANGED <<transfer_status>> /\ UNCHANGED RUnchanged
\* lines 264-270: one frame of the chunk loop
handle_chunk(w, res) ==
    LET r == receiver[w]
        data == res.msg.data
        got == r.received_total + Len(data)
        left == r.remaining - Len(data)
        n == Len(r.written)
    IN
    /\ r.pc = "chunks"
    /\ IF ~res.ok
       THEN /\ receiver' = [receiver EXCEPT ![w].pc = "exc_status"]
            /\ UNCHANGED <<progress, transfer_bytes>>
       ELSE /\ receiver' = [receiver EXCEPT ![w] =
                  [@ EXCEPT !.written = [r.written EXCEPT ![n] = r.written[n] \o data],
                            !.received_total = got,
                            !.remaining = IF left > 0 THEN left ELSE 0,
                            !.pc = IF left > 0 THEN "chunks" ELSE "header",
                            !.idx = IF left > 0 THEN r.idx ELSE r.idx + 1]]
            /\ IF r.total > 0
               THEN update_progress(r.host, <<got, r.total>>, got)
               ELSE UNCHANGED <<progress, transfer_bytes>>
    /\ UNCHANGED <<transfer_status>> /\ UNCHANGED RUnchanged

\* line 276
RFinal(w) ==
    LET r == receiver[w] IN
    /\ r.pc = "header" /\ r.idx > r.nfiles
    /\ update_progress(r.host, One, r.received_total)
    /\ receiver' = [receiver EXCEPT ![w].pc = "clear"]
    /\ UNCHANGED <<transfer_status>> /\ UNCHANGED RQuiet

\* line 294
RClear(w) ==
    /\ receiver[w].pc = "clear"
    /\ clear_progress(receiver[w].host)
    /\ receiver' = [receiver EXCEPT ![w].pc = "done", ![w].result = COMPLETED]
    /\ UNCHANGED RQuiet

\* line 299
RExceptStatus(w) ==
    /\ receiver[w].pc = "exc_status"
    /\ set_transfer_status(receiver[w].host, ERROR)
    /\ receiver' = [receiver EXCEPT ![w].pc = "exc_clear"]
    /\ UNCHANGED <<progress, transfer_bytes>> /\ UNCHANGED RQuiet

\* line 300
RExceptClear(w) ==
    /\ receiver[w].pc = "exc_clear"
    /\ clear_progress(receiver[w].host)
    /\ receiver' = [receiver EXCEPT ![w].pc = "done", ![w].result = ERROR]
    /\ UNCHANGED RQuiet


\* ------------------------------------------------------------ receiver, any peer
\* _handle_peer against a connection whose every read may give any message
\* or raise
RAccept(w, host) == accept(w, host) /\ UNCHANGED netVars
RRequest(w, res) == handle_request(w, res) /\ UNCHANGED netVars
RConsent(w, oracle, sent) == handle_consent(w, oracle, sent) /\ UNCHANGED netVars
RHeader(w, res) == handle_header(w, res) /\ UNCHANGED netVars
RChunk(w, res) == handle_chunk(w, res) /\ UNCHANGED netVars

\* ------------------------------------------------------------ AEADStream, Proto
\* ChaCha20Poly1305 under the session key with the fixed associated data: a
\* sealed frame opens under the nonce it was sealed with and under no other,
\* and a frame altered in transit opens under none
Seal(nonce, msg) == [nonce |-> nonce, msg |-> msg, tag |-> "ok"]
Open(nonce, frame) == frame.tag = "ok" /\ frame.nonce = nonce
Tamper(frame) == [frame EXCEPT !.tag = "bad"]
\* the connection gives no length header: _recvall returns b""
Eof == [nonce |-> -1, msg |-> OtherMsg, tag |-> "eof"]

\* a length prefix above 16 MiB followed by that many bytes from a party
\* without the key
Huge == [nonce |-> -1, msg |-> OtherMsg, tag |-> "huge"]
\* the 4-byte length prefix of a frame (line 66): for a sealed message the
\* JSON text, at most 6 bytes for a character of data and under 64 for the
\* rest, and the 16 bytes of the Poly1305 tag
Prefix(frame) ==
    IF frame.tag = "huge" THEN 16 * 1024 * 1024 + 1
    ELSE 6 * Len(frame.msg.data) + 64 + 16

\* AEADStream.__init__
AEADStream == [send_nonce |-> 0, recv_nonce |-> 0]

encrypt_same_nonce(a, msg) == [aead |-> a, frame |-> Seal(a.send_nonce, msg)]
\* AEADStream.encrypt
encrypt(a, msg) ==
    [aead |-> [a EXCEPT !.send_nonce = a.send_nonce + 1],
     frame |-> Seal(a.send_nonce, msg)]

\* AEADStream.decrypt: the counter moves before the AEAD is asked
decrypt(a, frame) ==
    [aead |-> [a EXCEPT !.recv_nonce = a.recv_nonce + 1],
     nonce |-> a.recv_nonce,
     ok |-> Open(a.recv_nonce, frame),
     msg |-> frame.msg]

\* Proto.send_json with an AEADStream
send_json(a, msg) == encrypt(a, msg)

recv_json_unchecked(a, frame) ==
    IF frame = Eof
    THEN [aead |-> a, res |-> Raised, log |-> <<>>]
    ELSE LET d == decrypt(a, frame) IN
         [aead |-> d.aead,
          res |-> Returned(d.msg),
          log |-> <<[nonce |-> d.nonce, frame |-> frame, ok |-> d.ok,
                     res |-> Returned(d.msg)]>>]
\* Proto.recv_json with an AEADStream: the new stream state, what the caller
\* gets, and the record of the decrypt call if one was made
recv_json(a, frame) ==
    IF frame = Eof
    THEN [aead |-> a, res |-> Raised, log |-> <<>>]
    ELSE LET d == decrypt(a, frame)
             res == IF d.ok THEN Returned(d.msg) ELSE Raised
         IN  [aead |-> d.aead,
              res |-> res,
              log |-> <<[nonce |-> d.nonce, frame |-> frame, ok |-> d.ok,
                         res |-> res]>>]

\* ------------------------------------------------------------ one connection
\* the remote sender and the receive worker, each with the AEADStream that
\* key_agree returned, both over the one derived key; between them a party
\* that may deliver to either end any frame put on the connection so far, in
\* either direction, intact or altered, or a frame of its own, or cut the
\* connection
Ends == RWorkers \cup {"peer"}
Wire(sent) == Elems(sent) \cup {Tamper(f) : f \in Elems(sent)} \cup {Eof, Huge}
Heard == net \o back
PeerMsgs == {Msg("send_request", 1, MaxFrames - 2, 0, <<>>),
             Header(<<"a">>, MaxFrames - 2),
             Msg("none", 0, 0, 0, <<"x">>)}

\* the worker's AEADStream after a recv_json, and the record of its decrypt
Took(w, r) ==
    /\ aead' = [aead EXCEPT ![w] = r.aead]
    /\ dec_log' = [dec_log EXCEPT ![w] = dec_log[w] \o r.log]

\* _server_loop accepts; key_agree on both ends (lines 229 and 314)
AConnect(w, host) ==
    /\ peer = "none"
    /\ accept(w, host)
    /\ peer' = "open"
    /\ aead' = [e \in Ends |-> AEADStream]
    /\ UNCHANGED <<net, back, dec_log, svc, hs>>

\* the remote sender's Proto.send_json(sock, obj, aead)
APeerSend(m) ==
    /\ peer = "open" /\ Len(net) < MaxFrames
    /\ LET e == send_json(aead["peer"], m) IN
        /\ aead' = [aead EXCEPT !["peer"] = e.aead]
        /\ net' = Append(net, e.frame)
    /\ UNCHANGED <<status, devices, selected_device_ids, selected_files, progress,
                   transfer_bytes, transfer_status, lock, gc, since_beacon, sender,
                   receiver, back, peer, dec_log, cfg, svc, hs>>

\* the remote sender's read of the response (line 325); an exception or
\* accept:false ends its use of the connection
APeerRecv(f) ==
    /\ peer = "open" /\ dec_log["peer"] = <<>>
    /\ LET r == recv_json(aead["peer"], f) IN
        /\ Took("peer", r)
        /\ peer' = IF r.res.ok /\ r.res.msg.accept THEN "open" ELSE "closed"
    /\ UNCHANGED <<status, devices, selected_device_ids, selected_files, progress,
                   transfer_bytes, transfer_status, lock, gc, since_beacon, sender,
                   receiver, net, back, cfg, svc, hs>>

\* line 230
ARequest(w, f) ==
    LET r == recv_json(aead[w], f) IN
        handle_request(w, r.res) /\ Took(w, r) /\ UNCHANGED <<net, back, peer, svc, hs>>

\* lines 242-247: Proto.send_json(conn, {"accept": ...}, aead)
AConsent(w, oracle, sent) ==
    LET e == send_json(aead[w], Response(ask_user_accept(oracle))) IN
        /\ handle_consent(w, oracle, sent)
        /\ aead' = [aead EXCEPT ![w] = e.aead]
        /\ back' = IF sent THEN Append(back, e.frame) ELSE back
        /\ UNCHANGED <<net, peer, dec_log, svc, hs>>

\* line 255
AHeader(w, f) ==
    LET r == recv_json(aead[w], f) IN
        handle_header(w, r.res) /\ Took(w, r) /\ UNCHANGED <<net, back, peer, svc, hs>>

\* line 264
AChunk(w, f) ==
    LET r == recv_json(aead[w], f) IN
        handle_chunk(w, r.res) /\ Took(w, r) /\ UNCHANGED <<net, back, peer, svc, hs>>

\* ------------------------------------------------------------ prune_devices
\* the whole call in one step, for the threads that take the lock
GcPass ==
    /\ gc.pc = "idle" /\ lock = "free"
    /\ LET live == Live(devices, TTL) IN
        /\ devices' = Restrict(devices, live)
        /\ progress' = PruneProgress(progress, live)
        /\ selected_device_ids' = Filter(selected_device_ids, live)
    /\ UNCHANGED <<status, selected_files, transfer_bytes, transfer_status, lock, gc,
                   since_beacon, sender, receiver, netVars, cfg>>

\* ------------------------------------------------------------ specifications
SenderInit == [pc |-> "idle", queue |-> <<>>, prev_status |-> AVAILABLE,
               before |-> AVAILABLE, dev |-> "",
               files |-> <<>>, total |-> 0, attempt |-> 0, sent_total |-> 0,
               idx |-> 1, off |-> 0, result |-> "none", conns |-> 0, recs |-> 0,
               hdr_sum |-> 0, cause |-> "none", out |-> <<>>]
ReceiverInit == [pc |-> "idle", host |-> "", nfiles |-> 0, total |-> 0,
                 received_total |-> 0, remaining |-> 0, idx |-> 1, result |-> "none",
                 written |-> <<>>, opened |-> <<>>, dialog |-> "none", polls |-> 0, accepted |-> FALSE,
                 busy |-> FALSE, timed_out |-> FALSE, size |-> 0]

\* main_window.py line 270: TransferService(state, ui_root=self)
AppWiring == [ui_root |-> TRUE, history |-> FALSE]

\* any construction the signature of line 172 allows
Wirings == [ui_root : BOOLEAN, history : BOOLEAN]

\* the two ends of a connection, send_to's and _handle_peer's; key_agree is
\* not yet called
HEnds == {"snd", "rcv"}
\* what one sendall of key_agree carries, or one recv returns: nothing, an
\* ephemeral public key, a signature by an identity over a key, or a piece cut
\* short
Item(kind, eph, signer) == [kind |-> kind, eph |-> eph, signer |-> signer]
NoItem == Item("none", "", "")
HsInit == [pc |-> "idle", pin |-> "none", inbox |-> <<>>, peer_pub_bytes |-> NoItem,
           peer_sig |-> NoItem, cut |-> FALSE, key |-> {}, stream |-> <<>>,
           why |-> "none"]

\* Advertiser.start, Scanner.start and TransferService.__init__ have started
\* the loops, and no stop event is set
ServiceInit == [stop_adv |-> FALSE, stop_scan |-> FALSE, stop_xfer |-> FALSE,
                adv |-> "run", listen |-> "recv", gc |-> "run", srv |-> "accept",
                bad |-> 0, last |-> "none"]

\* AppState.__init__ and idle threads: one send-ui thread per on_send call
\* that may overlap, one receive thread per connection that may be open
InitWorkers(senders, receivers) ==
    /\ status \in {AVAILABLE, BUSY}
    /\ devices = <<>>
    /\ selected_device_ids = <<>>
    /\ selected_files = <<>>
    /\ progress = <<>>
    /\ transfer_bytes = <<>>
    /\ transfer_status = <<>>
    /\ lock = "free"
    /\ gc = GcIdle
    /\ since_beacon = [k \in DeviceIds |-> TTL]
    /\ sender = [w \in senders |-> SenderInit]
    /\ receiver = [w \in receivers |-> ReceiverInit]
    /\ aead = [e \in Ends |-> AEADStream]
    /\ net = <<>>
    /\ back = <<>>
    /\ peer = "none"
    /\ dec_log = [e \in Ends |-> <<>>]
    /\ svc = ServiceInit
    /\ hs = [e \in HEnds |-> HsInit]

InitState == InitWorkers(SWorkers, RWorkers)

Init == InitState /\ cfg = AppWiring
InitAny == InitState /\ cfg \in Wirings

Peer1 == "10.0.0.2"
\* the datagrams of one advertising peer, and a coarse clock
Beacon1 ==
    \E p \in Payloads : p.host \in {"", LocalIP, Peer1} /\ Listen(p, Peer1)

SendWorker(w) ==
    \/ SNextDevice(w)
    \/ SFinish(w)
    \/ SStart(w)
    \/ \E o \in {"fail", "garbled", "reject", "accept"} : SConnect(w, o)
    \/ SRejectStatus(w)
    \/ SRejectProgress(w)
    \/ SChunk(w)
    \/ SNextFile(w)
    \/ SStreamFail(w)
    \/ SFinal(w)
    \/ SClear(w)
    \/ SExcept(w)
    \/ SExhaustStatus(w)
    \/ SExhaustClear(w)

RecvWorker(w) ==
    \/ RAccept(w, Peer1)
    \/ \E res \in RecvResults : RRequest(w, res)
    \/ \E oracle \in BOOLEAN, sent \in BOOLEAN : RConsent(w, oracle, sent)
    \/ RStart(w)
    \/ \E res \in RecvResults : RHeader(w, res)
    \/ \E res \in RecvResults : RChunk(w, res)
    \/ RFinal(w)
    \/ RClear(w)
    \/ RExceptStatus(w)
    \/ RExceptClear(w)

\* the scanner with its GC in two steps, the UI and a send worker
Next ==
    \/ GcCompute
    \/ GcStore
    \/ Beacon1
    \/ Tick(TTL)
    \/ \E s \in {AVAILABLE, BUSY} : on_status_toggled(s)
    \/ \E f \in FileChoices : pick_files(f)
    \/ \E d \in DeviceIds : add_selected_device(d)
    \/ \E d \in DeviceIds : remove_selected_device(d)
    \/ \E w \in SWorkers : on_send(w)
    \/ \E w \in SWorkers : SendWorker(w)
Spec == Init /\ [][Next]_vars

\* the scanner, a send worker and a receive worker, every AppState call atomic
NextXfer ==
    \/ GcPass
    \/ Beacon1
    \/ Tick(TTL)
    \/ \E f \in FileChoices : pick_files(f)
    \/ \E d \in DeviceIds : add_selected_device(d)
    \/ \E w \in SWorkers : on_send(w)
    \/ \E w \in SWorkers : SendWorker(w)
    \/ \E w \in RWorkers : RecvWorker(w)
SpecXfer == Init /\ [][NextXfer]_vars

\* the scanner alone, two advertising peers, the clock in seconds
NextGC ==
    \/ GcCompute
    \/ GcStore
    \/ \E p \in Payloads, addr \in Hosts \cup {LocalIP} : Listen(p, addr)
    \/ Tick(1)
    \/ \E d \in DeviceIds : add_selected_device(d)
    \/ \E d \in DeviceIds : remove_selected_device(d)
SpecGC == Init /\ [][NextGC]_vars

\* one inbound connection over the AEAD layer
NextAEAD ==
    \/ \E w \in RWorkers : AConnect(w, Peer1)
    \/ \E m \in PeerMsgs : APeerSend(m)
    \/ \E f \in Wire(Heard) : APeerRecv(f)
    \/ \E w \in RWorkers, f \in Wire(Heard) : ARequest(w, f)
    \/ \E w \in RWorkers, oracle \in BOOLEAN, sent \in BOOLEAN : AConsent(w, oracle, sent)
    \/ \E w \in RWorkers : RStart(w)
    \/ \E w \in RWorkers, f \in Wire(Heard) : AHeader(w, f)
    \/ \E w \in RWorkers, f \in Wire(Heard) : AChunk(w, f)
    \/ \E w \in RWorkers : RFinal(w)
    \/ \E w \in RWorkers : RClear(w)
    \/ \E w \in RWorkers : RExceptStatus(w)
    \/ \E w \in RWorkers : RExceptClear(w)
SpecAEAD == Init /\ [][NextAEAD]_vars
\* the scanner, the UI and a send worker: the GC thread keeps running, and
\* a send worker that can take the lock again and again gets it
SpecFair ==
    /\ Spec
    /\ WF_vars(GcCompute) /\ WF_vars(GcStore)
    /\ \A w \in SWorkers : SF_vars(SendWorker(w))

\* ------------------------------------------------------------ properties

\* C1: immediately after a prune_devices call returns, every key of progress
\* and every element of selected_device_ids is a key of devices, and no row
\* or selection entry is left for a device the call evicted.
C1_PruneLeavesNoOrphan ==
    [][ (gc.pc = "store" /\ gc'.pc = "idle") =>
            /\ DOMAIN progress' \subseteq DOMAIN devices'
            /\ Elems(selected_device_ids') \subseteq DOMAIN devices'
            /\ \A k \in gc.pruned :
                  k \notin DOMAIN progress' /\ k \notin Elems(selected_device_ids') ]_vars
\* a call about to return that evicted a selected device with a progress row
C1_Witness ==
    /\ gc.pc = "store"
    /\ \E k \in gc.pruned :
          k \in gc.rows /\ k \in Elems(selected_device_ids) /\ k \notin Elems(gc.tmp)

\* C2: a GC pass removes exactly the devices whose age is >= 6 s and leaves
\* the others as they were; a peer whose last beacon is less than 6 s old is
\* in devices with the age of that beacon, so it is never evicted.
C2_GcExact ==
    /\ [][ (gc.pc = "idle" /\ gc'.pc = "store") =>
              /\ DOMAIN devices' = {k \in DOMAIN devices : devices[k].age < TTL}
              /\ \A k \in DOMAIN devices' : devices'[k] = devices[k] ]_vars
    /\ [](\A k \in DeviceIds :
              since_beacon[k] < TTL =>
                  k \in DOMAIN devices /\ devices[k].age = since_beacon[k])
\* a pass that evicted one peer and kept another one second short of the TTL
C2_Witness ==
    /\ gc.pc = "store" /\ gc.pruned # {}
    /\ \E k \in DOMAIN devices : devices[k].age = TTL - 1

\* a transfer with peer k is in flight
InFlight(k) ==
    \/ \E w \in SWorkers :
          sender[w].dev = k /\ sender[w].pc \notin {"idle", "loop"}
    \/ \E w \in RWorkers :
          receiver[w].host = k /\ receiver[w].pc \notin {"idle", "done"}

\* C3: invariant I1, every key of progress is a key of devices or the peer
\* of a transfer still in flight.
C3_I1 == \A k \in DOMAIN progress : k \in DOMAIN devices \/ InFlight(k)

\* C4: no update made by one thread is lost to a read-modify-write of
\* another: the list replacement that ends prune_devices drops no selection
\* entry of a device that is still in devices.
C4_NoLostUpdate ==
    [][ (gc.pc = "store" /\ gc'.pc = "idle") =>
            \A d \in Elems(selected_device_ids) :
                d \in DOMAIN devices' => d \in Elems(selected_device_ids') ]_vars

\* C5: every value stored in progress lies in [0, 1].
C5_ProgressInUnit ==
    \A k \in DOMAIN progress : ~RLess(progress[k], Zero) /\ ~RLess(One, progress[k])
\* a receiver that got more bytes than the announced total, its row at 1
C5_Witness ==
    \E w \in RWorkers :
        /\ receiver[w].total > 0
        /\ receiver[w].received_total > receiver[w].total
        /\ receiver[w].host \in DOMAIN progress
        /\ progress[receiver[w].host] = One

\* C6: a transfer that completes publishes progress 1.0 for its peer after
\* the last chunk, also when the total is 0, and it completes only by the
\* step that removes the peer's row.
C6_CompleteThenClear ==
    [][ /\ \A w \in SWorkers :
            /\ (sender[w].pc # "clear" /\ sender'[w].pc = "clear") =>
                  /\ sender[w].pc = "stream" /\ sender[w].idx > Len(sender[w].files)
                  /\ sender'[w].dev \in DOMAIN progress'
                  /\ progress'[sender'[w].dev] = One
            /\ (sender[w].result # COMPLETED /\ sender'[w].result = COMPLETED) =>
                  sender[w].pc = "clear" /\ sender'[w].dev \notin DOMAIN progress'
        /\ \A w \in RWorkers :
            /\ (receiver[w].pc # "clear" /\ receiver'[w].pc = "clear") =>
                  /\ receiver[w].idx > receiver[w].nfiles
                  /\ receiver'[w].host \in DOMAIN progress'
                  /\ progress'[receiver'[w].host] = One
            /\ (receiver[w].result # COMPLETED /\ receiver'[w].result = COMPLETED) =>
                  receiver[w].pc = "clear" /\ receiver'[w].host \notin DOMAIN progress'
      ]_vars
\* a send of empty files at its final update, after a completed receive of
\* no bytes
C6_Witness ==
    /\ \E w \in SWorkers :
          /\ sender[w].pc = "clear" /\ sender[w].total = 0
          /\ sender[w].dev \in DOMAIN progress /\ progress[sender[w].dev] = One
    /\ \E w \in RWorkers :
          receiver[w].result = COMPLETED /\ receiver[w].received_total = 0

\* C7: after a send ends CANCELED or ERROR, the peer's row is eventually
\* removed while the peer remains in devices.
C7_TerminalRowRemoved ==
    \A w \in SWorkers :
        [](sender[w].result \in {CANCELED, ERROR} =>
              <>(sender[w].dev \notin DOMAIN progress
                    \/ sender[w].dev \notin DOMAIN devices))

\* the decrypt calls of an endpoint that succeeded, in order
Opened(e) == SelectSeq(dec_log[e], LAMBDA x : x.ok)
\* what the other end of e's inbound direction has sent
SentTo(e) == IF e = "peer" THEN back ELSE net

\* C8: both counters of every AEADStream start at 0, the k-th encrypt uses
\* send nonce k-1 and the k-th successful decrypt uses receive nonce k-1.
C8_NonceSequences ==
    /\ peer = "none" => \A e \in Ends : aead[e].send_nonce = 0 /\ aead[e].recv_nonce = 0
    /\ \A k \in 1..Len(net) : net[k].nonce = k - 1
    /\ \A k \in 1..Len(back) : back[k].nonce = k - 1
    /\ aead["peer"].send_nonce = Len(net)
    /\ \A e \in Ends : \A k \in 1..Len(Opened(e)) : Opened(e)[k].nonce = k - 1
\* both directions used: three frames sealed and two opened one way, one
\* sealed and opened the other way
C8_Witness ==
    /\ Len(net) >= 3 /\ Len(back) >= 1
    /\ \E w \in RWorkers : Len(Opened(w)) >= 2
    /\ Len(Opened("peer")) >= 1

\* C9: a frame is returned by recv_json only if it is intact and was sealed
\* with the counter value the receiving stream is at, and none is returned
\* after a failure; so of the frames the other end sealed, each is returned
\* at most once, at its place in the order sent, and a replayed, reordered
\* or post-gap frame is never returned.  The receive worker gets exactly a
\* prefix of what the remote sender sent.
C9_InOrderOnly ==
    \A e \in Ends : \A i \in 1..Len(dec_log[e]) :
        LET c == dec_log[e][i] IN
            /\ c.res.ok =>
                  /\ c.frame.tag = "ok" /\ c.frame.nonce = c.nonce
                  /\ c.res.msg = c.frame.msg
                  /\ c.nonce = i - 1
                  /\ c.frame \in Elems(SentTo(e)) => c.frame = SentTo(e)[c.nonce + 1]
                  /\ e \in RWorkers => i <= Len(net) /\ c.frame = net[i]
            /\ (c.frame.tag # "ok" \/ c.frame.nonce # c.nonce) => ~c.res.ok
\* an intact frame delivered a second time, and refused
C9_Witness ==
    \E w \in RWorkers : \E i \in 1..Len(dec_log[w]) :
        LET c == dec_log[w][i] IN
            /\ c.frame.tag = "ok" /\ c.frame.nonce < c.nonce /\ ~c.res.ok
            /\ \E j \in 1..(i - 1) : dec_log[w][j].frame = c.frame /\ dec_log[w][j].res.ok

\* the last decrypt of the receive worker failed authentication
AuthFailed(w) == dec_log[w] # <<>> /\ ~dec_log[w][Len(dec_log[w])].ok

\* C10: once a frame has failed authentication in a receive worker, the
\* worker is on its way out of the connection and reads no further frame;
\* from the failing frame on no byte is written and no progress value is
\* published.
C10_FailClosed ==
    /\ [](\A w \in RWorkers :
             AuthFailed(w) =>
                 /\ receiver[w].pc \in {"exc_status", "exc_clear", "done"}
                 /\ receiver[w].pc = "done" => receiver[w].result = ERROR)
    /\ [][ \A w \in RWorkers :
             AuthFailed(w)' =>
                 /\ receiver'[w].written = receiver[w].written
                 /\ receiver'[w].received_total = receiver[w].received_total
                 /\ \A k \in DOMAIN progress' :
                       k \in DOMAIN progress /\ progress'[k] = progress[k]
                 /\ \A k \in DOMAIN transfer_bytes' :
                       k \in DOMAIN transfer_bytes /\ transfer_bytes'[k] = transfer_bytes[k]
                 /\ AuthFailed(w) => dec_log'[w] = dec_log[w] /\ aead'[w] = aead[w] ]_vars
\* a worker that left through the error path after a chunk frame failed in
\* the middle of a file
C10_Witness ==
    \E w \in RWorkers :
        /\ AuthFailed(w)
        /\ receiver[w].pc = "done" /\ receiver[w].result = ERROR
        /\ receiver[w].received_total > 0 /\ receiver[w].remaining > 0

\* ------------------------------------------------------------ send_to alone
\* a send worker under any wiring, the selected files open to change and
\* removal by other processes
NextSend ==
    \/ Beacon1
    \/ \E f \in FileChoices : pick_files(f)
    \/ \E d \in DeviceIds : add_selected_device(d)
    \/ \E w \in SWorkers : on_send(w)
    \/ \E w \in SWorkers : SendWorker(w)
    \/ \E w \in SWorkers : SRaise(w)
    \/ \E w \in SWorkers, i \in 1..MaxFiles, size \in FileSizes : FileChanged(w, i, size)
SpecSend == InitAny /\ [][NextSend]_vars

\* send_to is between its entry and its return
InCall(w) == sender[w].pc \notin {"idle", "loop"}

\* C11: an attempt that has streamed all files announced, as total, the sum
\* of the sizes in the file headers it sent.
C11_TotalIsHeaderSum ==
    \A w \in SWorkers : sender[w].pc = "clear" => sender[w].hdr_sum = sender[w].total

\* C12: one call of send_to opens at most MAX_RETRIES connections, and once
\* the third attempt has failed it opens no other and returns False.
C12_AtMostMaxRetries ==
    \A w \in SWorkers :
        /\ sender[w].conns <= MAX_RETRIES
        /\ sender[w].attempt = MAX_RETRIES =>
              /\ sender[w].conns = MAX_RETRIES
              /\ sender[w].pc \in {"exh_status", "exh_clear", "loop", "idle"}
              /\ ~InCall(w) => sender[w].result = ERROR
\* a call that returned False after three connections
C12_Witness ==
    \E w \in SWorkers :
        sender[w].pc = "loop" /\ sender[w].result = ERROR /\ sender[w].conns = MAX_RETRIES

\* C13: on accept:false send_to opens no further connection, sets the
\* peer's status to CANCELED, appends a history record and returns False.
C13_RejectRecorded ==
    [][ \A w \in SWorkers :
          (sender[w].pc = "rej_progress" /\ sender'[w].pc = "loop") =>
              /\ sender'[w].result = CANCELED
              /\ sender'[w].conns = sender[w].conns
              /\ get_transfer_status(sender[w].dev)' = CANCELED
              /\ sender'[w].recs = sender[w].recs + 1 ]_vars

\* C14: a failure after the receiver answered accept:true starts no other
\* attempt.
C14_NoRetryAfterAccept ==
    [][ \A w \in SWorkers :
          (sender[w].pc = "failed" /\ sender[w].cause = "stream") =>
              sender'[w].pc # "attempt" ]_vars

\* C15: an attempt that failed on a response frame that does not
\* authenticate or parse is the last of its call, and leaves the peer's
\* status ERROR.
C15_NoRetryAfterCrypto ==
    [][ \A w \in SWorkers :
          (sender[w].pc = "failed" /\ sender[w].cause = "crypto"
                /\ sender'[w].pc # "failed") =>
              /\ sender'[w].pc \notin {"attempt", "connect"}
              /\ get_transfer_status(sender[w].dev)' = ERROR ]_vars

\* C16: when a worker finishes a transfer in error, get_transfer_status of
\* the peer is ERROR.
C16_ErrorObservable ==
    [][ /\ \A w \in SWorkers :
            (sender[w].result # ERROR /\ sender'[w].result = ERROR) =>
                get_transfer_status(sender[w].dev)' = ERROR
        /\ \A w \in RWorkers :
            (receiver[w].result # ERROR /\ receiver'[w].result = ERROR) =>
                get_transfer_status(receiver[w].host)' = ERROR ]_vars

\* C17: with a history store attached, a call of send_to has appended no
\* record while an attempt can still follow, and exactly one when it ends.
C17_OneRecordPerCall ==
    \A w \in SWorkers :
        cfg.history =>
            /\ sender[w].recs <= 1
            /\ (InCall(w) /\ sender[w].attempt < MAX_RETRIES) => sender[w].recs = 0
            /\ (~InCall(w) /\ sender[w].result # "none") => sender[w].recs = 1

\* ------------------------------------------------------------ consent
\* a receive worker under any wiring with _ask_user_accept in steps, the
\* status toggled and the dialog answered by the UI thread at any time
NextConsent ==
    \/ \E st \in {AVAILABLE, BUSY} : on_status_toggled(st)
    \/ \E w \in RWorkers : RAccept(w, Peer1)
    \/ \E w \in RWorkers, res \in RecvResults : RRequest(w, res)
    \/ \E w \in RWorkers : RAsk(w)
    \/ \E w \in RWorkers, yes \in BOOLEAN : UIDecide(w, yes)
    \/ \E w \in RWorkers : RPoll(w)
    \/ \E w \in RWorkers : RTimeout(w)
    \/ \E w \in RWorkers, sent \in BOOLEAN : RRespond(w, sent)
    \/ \E w \in RWorkers : RStart(w)
    \/ \E w \in RWorkers, res \in RecvResults \cup {Returned(m) : m \in TraversalMsgs} :
          RHeader(w, res)
    \/ \E w \in RWorkers, res \in RecvResults : RChunk(w, res)
    \/ \E w \in RWorkers : RFinal(w)
    \/ \E w \in RWorkers : RClear(w)
    \/ \E w \in RWorkers : RExceptStatus(w)
    \/ \E w \in RWorkers : RExceptClear(w)
SpecConsent == InitAny /\ [][NextConsent]_vars

\* the worker is past the response with accept true
Ingesting(r) ==
    \/ r.pc \in {"start", "header", "chunks", "clear"}
    \/ r.pc = "done" /\ r.result = COMPLETED
    \/ r.written # <<>>

\* the worker has answered accept false, or failed to send that answer
Refused(r) ==
    /\ ~r.accepted /\ r.written = <<>>
    /\ r.pc \in {"respond", "exc_status", "exc_clear", "done"}
    /\ r.pc = "done" => r.result \in {"rejected", ERROR}

\* C18 as stated: a worker that found the status BUSY at line 186 posts no
\* request to the UI, refuses, writes no file and adds no key to progress
\* or to transfer_status.
C18_BusyLeavesNoEntry ==
    [][ \A w \in RWorkers :
          (receiver'[w].busy /\ receiver'[w] # receiver[w]) =>
              /\ receiver'[w].dialog = "none" /\ Refused(receiver'[w])
              /\ DOMAIN progress' \subseteq DOMAIN progress
              /\ DOMAIN transfer_status' \subseteq DOMAIN transfer_status ]_vars

\* C18: a worker that found the status BUSY at line 186 posts no request to
\* the UI, refuses, writes no file and adds no key to progress; it adds a key
\* to transfer_status only in the except clause, when sending the response
\* failed, and that key is gone when the worker finishes.
C18_BusyRefuses ==
    [][ \A w \in RWorkers :
          (receiver'[w].busy /\ receiver'[w] # receiver[w]) =>
              /\ receiver'[w].dialog = "none" /\ Refused(receiver'[w])
              /\ DOMAIN progress' \subseteq DOMAIN progress
              /\ \/ DOMAIN transfer_status' \subseteq DOMAIN transfer_status
                 \/ receiver[w].pc = "exc_status"
              /\ receiver'[w].pc = "done" =>
                    receiver[w].host \notin DOMAIN transfer_status' ]_vars
\* a request refused under BUSY, the response sent
C18_Witness ==
    \E w \in RWorkers :
        /\ receiver[w].busy /\ receiver[w].pc = "done"
        /\ receiver[w].result = "rejected" /\ receiver[w].dialog = "none"

\* C19: a worker whose 300 polls found no decision answers accept false and
\* ingests nothing, whatever the UI writes into the result afterwards.
C19_TimeoutRefuses ==
    \A w \in RWorkers : receiver[w].timed_out => Refused(receiver[w])
\* the user said yes after the window: the request stays refused
C19_Witness ==
    \E w \in RWorkers :
        /\ receiver[w].timed_out /\ receiver[w].dialog = "yes"
        /\ receiver[w].pc = "done" /\ receiver[w].result = "rejected"

\* C20: a worker is past the response with accept true only if the request
\* was posted to the UI and the user answered yes.
C20_IngestOnlyAfterYes ==
    \A w \in RWorkers : Ingesting(receiver[w]) => receiver[w].dialog = "yes"

\* ------------------------------------------------------------ ingestion
\* the last decrypt call of an endpoint
LastDec(log) == log[Len(log)]
\* the step is a recv_json of worker w that returned a message
Received(w) ==
    /\ Len(dec_log'[w]) = Len(dec_log[w]) + 1
    /\ LastDec(dec_log'[w]).res.ok
\* the message it returned
ReceivedMsg(w) == LastDec(dec_log'[w]).res.msg

\* C21: a worker whose first frame opens to a message of another type than
\* send_request returns: it sends no response, posts no request to the UI,
\* writes no file and leaves AppState as it was.
C21_NotARequestCloses ==
    [][ \A w \in RWorkers :
          (receiver[w].pc = "request" /\ Received(w)
                /\ ReceivedMsg(w).type # "send_request") =>
              /\ receiver'[w].pc = "done" /\ receiver'[w].result = "closed"
              /\ back' = back
              /\ receiver'[w].dialog = "none" /\ receiver'[w].written = <<>>
              /\ UNCHANGED <<status, devices, selected_device_ids, selected_files,
                             progress, transfer_bytes, transfer_status>> ]_vars
\* a connection closed on a first message that was no send_request
C21_Witness ==
    \E w \in RWorkers :
        /\ receiver[w].pc = "done" /\ receiver[w].result = "closed"
        /\ Len(dec_log[w]) = 1 /\ dec_log[w][1].res.ok
        /\ dec_log[w][1].res.msg.type # "send_request"

\* C22: the file being written never holds more bytes than its file_header
\* announced.
C22_NeverPastSize ==
    \A w \in RWorkers :
        LET r == receiver[w] IN
        r.written # <<>> => Len(r.written[Len(r.written)]) <= r.size

\* ------------------------------------------------------------ send_to and the scanner
\* C27: send_to opens no connection to a device whose entry in devices has
\* the status BUSY.
C27_NoConnectToBusy ==
    [][ \A w \in SWorkers :
          (sender[w].pc = "connect" /\ sender'[w].conns = sender[w].conns + 1) =>
              ~(/\ sender[w].dev \in DOMAIN devices
                /\ devices[sender[w].dev].status = BUSY) ]_vars

\* a < b for two published ratios; equal denominators compare by numerator
Lower(a, b) == IF a[2] = b[2] THEN a[1] < b[1] ELSE RLess(a, b)

\* C28: from the first chunk of an attempt to its completion, no step
\* lowers get_progress of the destination.
C28_MonotoneInAttempt ==
    [][ \A w \in SWorkers :
          (/\ sender[w].pc = "stream" /\ sender[w].sent_total > 0
           /\ sender'[w].pc \in {"stream", "clear"}) =>
              ~Lower(get_progress(sender[w].dev)', get_progress(sender[w].dev)) ]_vars

\* C29: while attempt n+1 is between its start_transfer and its first
\* chunk, get_progress of the destination is 0.
C29_ResetOnRetry ==
    \A w \in SWorkers :
        (/\ sender[w].attempt > 0
         /\ \/ sender[w].pc = "connect"
            \/ sender[w].pc = "stream" /\ sender[w].sent_total = 0) =>
            ~Lower(Zero, get_progress(sender[w].dev))

\* ------------------------------------------------------------ _listen alone
\* beacons of this host and of a peer, on the listen port and on another
OtherPort == "49223"
Beacons == [type : {"fishare_adv", "other"},
            host : {Peer1, LocalIP, ""},
            port : {ListenPort, OtherPort},
            status : {AVAILABLE}]
NextListen ==
    \/ \E p \in Beacons, addr \in {Peer1, LocalIP} : Listen(p, addr)
    \/ GcPass
    \/ Tick(1)
SpecListen == Init /\ [][NextListen]_vars

\* C30: devices never has an entry for the local IP with the listen port,
\* and a fishare_adv beacon that resolves to another host or carries
\* another port is taken.
C30_SelfFilter ==
    /\ DeviceId(LocalIP, ListenPort) \notin DOMAIN devices
    /\ \A p \in Beacons, addr \in {Peer1, LocalIP} :
          (/\ p.type = "fishare_adv"
           /\ AdvHost(p, addr) # LocalIP \/ p.port # ListenPort) =>
              ENABLED Listen(p, addr)
\* entries that differ from the local endpoint in the port only, and in the
\* host only
C30_Witness ==
    /\ DeviceId(LocalIP, OtherPort) \in DOMAIN devices
    /\ DeviceId(Peer1, ListenPort) \in DOMAIN devices

\* ------------------------------------------------------------ Proto.recv_json
\* C24: no frame whose length prefix exceeds 16 MiB has its payload read
\* and handed to decrypt.
C24_FrameCap ==
    \A e \in Ends : \A i \in 1..Len(dec_log[e]) :
        Prefix(dec_log[e][i].frame) <= 16 * 1024 * 1024

\* C23: every file the receiver opens lies in download_dir.
C23_InsideDownloadDir ==
    \A w \in RWorkers : \A i \in 1..Len(receiver[w].opened) :
        LET path == receiver[w].opened[i] IN
        /\ Len(path) = Len(DownloadDir) + 1
        /\ SubSeq(path, 1, Len(DownloadDir)) = DownloadDir

\* ------------------------------------------------------------ both ends
\* send_to on one machine and _handle_peer on another, over one connection that
\* hands over every frame once, whole and in order.  The AppState maps of the
\* two ends have different keys, the device id on the sending end and the host
\* on the receiving end, and are kept in the same variables; status is the
\* receiving end's.
StreamFiles == {<<0>>, <<CHUNK_SIZE>>, <<CHUNK_SIZE + 1>>, <<CHUNK_SIZE + 1, 0>>, <<1, 2>>}
\* the k-th byte of the i-th selected file
Byte(i, k) == (31 * i + k) % 256

\* the sending end's worker() enters send_to for its one selected device
\* (lines 304-306)
PSendTo(w, files) ==
    /\ sender[w].pc = "idle"
    /\ sender' = [sender EXCEPT ![w] =
          [SenderInit EXCEPT !.pc = "attempt", !.dev = DeviceId(Peer1, ListenPort),
                             !.files = files, !.total = Sum(files)]]
    /\ UNCHANGED <<progress, transfer_bytes, transfer_status>>
    /\ UNCHANGED SUnchanged

\* the k-th JSON object send_to has written: the request (lines 316-323), then
\* the headers (line 354) and the chunks (line 361), whose data is the bytes
\* read decoded as latin-1, one character of the same code point for a byte;
\* line 265 encodes them back, one byte of the same value for a character
\* below 256
SentMsg(w, k) ==
    LET s == sender[w]
        d == s.out[k]
    IN  IF k = 0 THEN Msg("send_request", Len(s.files), s.total, 0, <<>>)
        ELSE IF d[1] = "file_header" THEN Header(<<ToString(d[2])>>, d[3])
        ELSE Msg("none", 0, 0, 0, [j \in 1..d[4] |-> Byte(d[2], d[3] + j)])

\* what the receiving end's next recv_json finds: the next frame in order, or
\* the end of the connection once send_to has returned
Arrives(w, r) ==
    LET k == aead[r].recv_nonce IN
        IF k <= Len(sender[w].out) THEN {Seal(k, SentMsg(w, k))}
        ELSE IF sender[w].pc = "loop" THEN {Eof} ELSE {}

\* line 313 on the sending end, _server_loop's accept on the receiving end
PAccept(w, r) == sender[w].pc = "connect" /\ AConnect(r, Peer1)
\* a send_to that goes on to the files without a response read
PResponseUnread(w) == SConnect(w, "accept")
\* line 325: the response frame read by send_to
PResponse(w) ==
    /\ back # <<>>
    /\ SConnect(w, IF back[1].msg.accept THEN "accept" ELSE "reject")

\* the steps of the two ends for a selection out of choices
Stream(choices) ==
    \/ \E w \in SWorkers, f \in choices : PSendTo(w, f)
    \/ \E w \in SWorkers : SStart(w)
    \/ \E w \in SWorkers, r \in RWorkers : PAccept(w, r)
    \/ \E w \in SWorkers, r \in RWorkers : \E f \in Arrives(w, r) : ARequest(r, f)
    \/ \E r \in RWorkers, oracle \in BOOLEAN : AConsent(r, oracle, TRUE)
    \/ \E w \in SWorkers : PResponse(w)
    \/ \E w \in SWorkers : SRejectStatus(w)
    \/ \E w \in SWorkers : SRejectProgress(w)
    \/ \E w \in SWorkers : SChunk(w)
    \/ \E w \in SWorkers : SNextFile(w)
    \/ \E w \in SWorkers : SFinal(w)
    \/ \E w \in SWorkers : SClear(w)
    \/ \E r \in RWorkers : RStart(r)
    \/ \E w \in SWorkers, r \in RWorkers : \E f \in Arrives(w, r) : AHeader(r, f)
    \/ \E w \in SWorkers, r \in RWorkers : \E f \in Arrives(w, r) : AChunk(r, f)
    \/ \E r \in RWorkers : RFinal(r)
    \/ \E r \in RWorkers : RClear(r)
\* the selected files stay as they are while they are sent
NextStream == Stream(StreamFiles)
SpecStream == Init /\ [][NextStream]_vars

\* C26: for a file of size S send_to emits one file_header and then exactly
\* ceil(S / CHUNK_SIZE) file_chunk frames, each of at most CHUNK_SIZE bytes and
\* all but the last of exactly CHUNK_SIZE (none for S = 0, one for CHUNK_SIZE,
\* two for CHUNK_SIZE + 1), and _handle_peer reads no chunk frame after a header
\* of size 0
C26_ChunksPerFile ==
    LET Chunks(S) == (S + CHUNK_SIZE - 1) \div CHUNK_SIZE
        Frames(i, S) ==
            <<<<"file_header", i, S>>>> \o
            [k \in 1..Chunks(S) |->
                <<"file_chunk", i, (k - 1) * CHUNK_SIZE,
                  IF k < Chunks(S) THEN CHUNK_SIZE ELSE S - (k - 1) * CHUNK_SIZE>>]
        Of(out, i) == SelectSeq(out, LAMBDA d : d[2] = i)
    IN  /\ \A w \in SWorkers :
            LET s == sender[w] IN
                s.out # <<>> =>
                    /\ Chunks(0) = 0 /\ Chunks(CHUNK_SIZE) = 1 /\ Chunks(CHUNK_SIZE + 1) = 2
                    /\ \A i \in 1..Len(s.files) :
                          LET mine == Of(s.out, i)
                              all == Frames(i, s.files[i])
                          IN  /\ i < s.idx => mine = all
                              /\ i = s.idx => /\ Len(mine) \in 1..Len(all)
                                              /\ mine = SubSeq(all, 1, Len(mine))
                              /\ i > s.idx => mine = <<>>
                    /\ \A k \in 1..Len(s.out) :
                          s.out[k][1] = "file_chunk" => s.out[k][4] \in 1..CHUNK_SIZE
        /\ \A r \in RWorkers :
              /\ receiver[r].pc = "chunks" => receiver[r].size > 0
              /\ \A k \in 1..Len(dec_log[r]) :
                    /\ k > 1 /\ dec_log[r][k].ok
                    /\ dec_log[r][k].res.msg.data # <<>>
                    => /\ dec_log[r][k - 1].res.msg.size > 0
                       \/ dec_log[r][k - 1].res.msg.data # <<>>

\* the header and both chunks of a file of CHUNK_SIZE + 1 bytes are out
C26_Witness ==
    \E w \in SWorkers :
        /\ sender[w].pc = "clear" /\ sender[w].files = <<CHUNK_SIZE + 1>>
        /\ Len(sender[w].out) = 3 /\ sender[w].out[3][4] = 1

\* ------------------------------------------------------------ changing files
\* both ends while another process rewrites the files being sent, files of a
\* few bytes here; the receiving end may find the connection closed
PipeFiles == {<<0>>, <<1, 2>>}
PipeSizes == 0..2
NextPipe ==
    \/ Stream(PipeFiles)
    \/ \E w \in SWorkers, i \in 1..2, size \in PipeSizes : FileChanged(w, i, size)
    \/ \E r \in RWorkers : RExceptStatus(r)
    \/ \E r \in RWorkers : RExceptClear(r)
SpecPipe == Init /\ [][NextPipe]_vars

\* C25: in an accepted transfer without a transport error the files go out in
\* selection order and the chunks of a file in file order, and once both ends
\* are done every file written is, byte for byte, what send_to read of that
\* file, and has the size its header announced
C25_SameBytes ==
    \A w \in SWorkers, r \in RWorkers :
        LET s == sender[w]
            Of(i) == SelectSeq(s.out, LAMBDA d : d[2] = i)
            ReadOf(i) == Sum([k \in 1..(Len(Of(i)) - 1) |-> Of(i)[k + 1][4]])
        IN  /\ \A a, b \in 1..Len(s.out) :
                  a < b => \/ s.out[a][2] < s.out[b][2]
                           \/ /\ s.out[a][2] = s.out[b][2]
                              /\ s.out[b][1] = "file_chunk"
                              /\ s.out[a][1] = "file_chunk" => s.out[a][3] < s.out[b][3]
            /\ s.result = COMPLETED /\ receiver[r].result = COMPLETED
               => /\ Len(receiver[r].written) = Len(s.files)
                  /\ \A i \in 1..Len(s.files) :
                        /\ receiver[r].written[i] = [k \in 1..ReadOf(i) |-> Byte(i, k)]
                        /\ Len(receiver[r].written[i]) = Of(i)[1][3]

\* ------------------------------------------------------------ beacon status
\* the Scanner of netcore/scanner.py on its own
NextNetcore ==
    \/ \E p \in Payloads, addr \in Hosts : ListenNetcore(p, addr)
    \/ GcNetcore
    \/ Tick(1)
SpecNetcore == Init /\ [][NextNetcore]_vars

\* C31: a beacon a Scanner takes leaves a Device that is AVAILABLE only when
\* the beacon's status is exactly "available" and BUSY for any other or absent
\* status, and every fishare_adv beacon that is not filtered is taken; for
\* the Scanner of network.py and for the Scanner of netcore/scanner.py
C31_StatusFromBeacon ==
    [][\A p \in Payloads, addr \in Hosts :
          LET Right == \A id \in DOMAIN devices' :
                          id \notin DOMAIN devices \/ devices'[id] # devices[id] =>
                              devices'[id].status =
                                  IF p.status = AVAILABLE THEN AVAILABLE ELSE BUSY
              adv == p.type = "fishare_adv" /\ lock = "free"
          IN  /\ Listen(p, addr) => Right
              /\ adv /\ ~IsSelf(AdvHost(p, addr), p.port) => ENABLED Listen(p, addr)
              /\ ListenNetcore(p, addr) => Right
              /\ adv => ENABLED ListenNetcore(p, addr)]_vars

\* ------------------------------------------------------------ the loops
\* what recvfrom hands to _listen: bytes that are no UTF-8, text that is no
\* JSON, JSON that is no object, or an object; an object may carry a port that
\* int() rejects
NoPort == "http"
Datagrams ==
    {[raw |-> r, payload |-> [type |-> "other", host |-> "", port |-> ListenPort,
                              status |-> ""]] : r \in {"not_utf8", "not_json", "not_object"}}
    \cup {[raw |-> "object", payload |-> p] :
             p \in [type : {"fishare_adv", "other"}, host : {Peer1, LocalIP, ""},
                    port : {ListenPort, NoPort}, status : {AVAILABLE}]}

\* lines 142-146: decode, json.loads, payload.get and int(port) raise
Raises(d) ==
    \/ d.raw # "object"
    \/ d.payload.type = "fishare_adv" /\ d.payload.port = NoPort

\* an except clause around the loop
AfterPassOutside(raised, stop) == IF raised \/ stop THEN "exit" ELSE "recv"
\* lines 162-163 and 139: the except clause is inside the loop, and the loop
\* tests the stop event before it blocks in recvfrom again
AfterPass(raised, stop) == IF stop THEN "exit" ELSE "recv"

\* datagrams counted as dropped
MaxBad == 2
\* lines 139-163: one pass of _listen over the datagram d from addr; bad counts
\* the datagrams dropped as malformed or of another type, last is what the
\* pass did
ListenLoop(d, addr) ==
    LET bad == Raises(d) \/ d.payload.type # "fishare_adv"
        drop == bad \/ IsSelf(AdvHost(d.payload, addr), d.payload.port)
    IN  /\ svc.listen = "recv"
        /\ IF drop
           THEN UNCHANGED <<devices, since_beacon, hs>> /\ UNCHANGED LUnchanged
           ELSE listen(d.payload, addr)
        /\ svc' = [svc EXCEPT !.listen = AfterPass(Raises(d), svc.stop_scan),
                              !.bad = IF bad /\ svc.bad < MaxBad THEN svc.bad + 1
                                      ELSE svc.bad,
                              !.last = IF drop THEN "dropped" ELSE "taken"]

\* Advertiser._run, lines 100-114: one pass; the beacon goes to the network
AdvLoop ==
    /\ svc.adv = "run"
    /\ svc' = [svc EXCEPT !.adv = IF svc.stop_adv THEN "exit" ELSE "run"]
    /\ UNCHANGED <<devices, since_beacon, hs>> /\ UNCHANGED LUnchanged

\* Scanner._gc, lines 132-134: a pass, and the loop test that ends it
GcLoop == svc.gc = "run" /\ GcPass
GcExit ==
    /\ svc.gc = "run" /\ svc.stop_scan
    /\ svc' = [svc EXCEPT !.gc = "exit"]
    /\ UNCHANGED <<devices, since_beacon, hs>> /\ UNCHANGED LUnchanged

\* _server_loop, lines 217-222: accept() times out after a second
SrvTimeout ==
    /\ svc.srv = "accept"
    /\ svc' = [svc EXCEPT !.srv = IF svc.stop_xfer THEN "exit" ELSE "accept"]
    /\ UNCHANGED <<devices, since_beacon, hs>> /\ UNCHANGED LUnchanged
\* lines 220 and 224: a connection comes in
SrvAccept(w, host) == svc.srv = "accept" /\ RAccept(w, host)

\* Advertiser.stop, Scanner.stop, TransferService.stop
stop(event) ==
    /\ ~svc[event]
    /\ svc' = [svc EXCEPT ![event] = TRUE]
    /\ UNCHANGED <<devices, since_beacon, hs>> /\ UNCHANGED LUnchanged

NextThreads ==
    \/ \E d \in Datagrams, addr \in {Peer1, LocalIP} : ListenLoop(d, addr)
    \/ AdvLoop
    \/ GcLoop
    \/ GcExit
    \/ SrvTimeout
    \/ \E w \in RWorkers : SrvAccept(w, Peer1)
    \/ \E event \in {"stop_adv", "stop_scan", "stop_xfer"} : stop(event)
    \/ Tick(TTL)
SpecThreads == Init /\ [][NextThreads]_vars
\* the timers of the three loops that sleep or time out run on; nothing
\* promises a datagram or a connection
SpecThreadsFair ==
    SpecThreads /\ WF_vars(AdvLoop) /\ WF_vars(GcExit) /\ WF_vars(SrvTimeout)

\* C32: a datagram that is not UTF-8 JSON, not an object, has a port that is
\* no number or a type that is not fishare_adv changes nothing of AppState,
\* and the listener is then back in recvfrom, where a valid beacon is taken
C32_BadDatagramAbsorbed ==
    [][\A d \in Datagrams, addr \in {Peer1, LocalIP} :
          /\ ListenLoop(d, addr) /\ (Raises(d) \/ d.payload.type # "fishare_adv") =>
                /\ UNCHANGED <<status, devices, selected_device_ids, selected_files,
                               progress, transfer_bytes, transfer_status>>
                /\ ~svc.stop_scan => svc'.listen = "recv"
          /\ (/\ ~svc.stop_scan /\ lock = "free"
              /\ ~Raises(d) /\ d.payload.type = "fishare_adv"
              /\ ~IsSelf(AdvHost(d.payload, addr), d.payload.port)) =>
                ENABLED (/\ ListenLoop(d, addr)
                         /\ DeviceId(AdvHost(d.payload, addr), d.payload.port)
                                \in DOMAIN devices')]_vars

\* a beacon is registered after MaxBad datagrams were dropped, the listener
\* back in recvfrom
C32_Witness ==
    /\ svc.listen = "recv" /\ svc.bad = MaxBad /\ svc.last = "taken"
    /\ \E k \in DOMAIN devices : devices[k].age = 0

\* C33: once stop() has been called on the Advertiser, the Scanner and the
\* TransferService, the advertiser loop, the listener, the scanner's GC loop
\* and the accept loop all exit, whatever the network does or does not send
C33_LoopsExit ==
    (svc.stop_adv /\ svc.stop_scan /\ svc.stop_xfer)
        ~> (svc.adv = "exit" /\ svc.listen = "exit" /\ svc.gc = "exit" /\ svc.srv = "exit")

\* ------------------------------------------------------------ AEADStream
\* C34: the receive counter of an AEADStream counts the decrypt calls that
\* authenticated: a decrypt that fails leaves it where it was
C34_CountersOnSuccess ==
    \A e \in Ends :
        aead[e].recv_nonce =
            Cardinality({i \in 1..Len(dec_log[e]) : dec_log[e][i].ok})

\* ------------------------------------------------------------ key_agree
\* the identity and the ephemeral key of each end, and of a party in between
Id(e) == "id_" \o e
Eph(e) == "eph_" \o e
Other(e) == IF e = "snd" THEN "rcv" ELSE "snd"
Pins == {"none", Id("snd"), Id("rcv")}

\* a key_agree that never verifies
NeverPinned(pin) == FALSE
\* line 59: if peer_pub
Pinned(pin) == pin # "none"
\* line 60: Ed25519PublicKey.verify(peer_sig, peer_pub_bytes) under the pin
Verifies(pin, sig, pub) ==
    sig.kind = "sig" /\ pub.kind = "pub" /\ sig.signer = pin /\ sig.eph = pub.eph

\* key_agree is called with peer_pub = pin; lines 229 and 314 give none
key_agree(e, pin) ==
    /\ hs[e].pc = "idle"
    /\ hs' = [hs EXCEPT ![e].pc = "send_pub", ![e].pin = pin]
    /\ UNCHANGED <<devices, since_beacon, svc>> /\ UNCHANGED LUnchanged

\* lines 48-49: the two sendall calls, each a length and its bytes
HSend(e) ==
    LET item == IF hs[e].pc = "send_pub" THEN Item("pub", Eph(e), "")
                ELSE Item("sig", Eph(e), Id(e))
    IN  /\ hs[e].pc \in {"send_pub", "send_sig"}
        /\ hs' = [hs EXCEPT
              ![e].pc = IF hs[e].pc = "send_pub" THEN "send_sig" ELSE "recv_plen",
              ![Other(e)].inbox = Append(hs[Other(e)].inbox, item)]
        /\ UNCHANGED <<devices, since_beacon, svc>> /\ UNCHANGED LUnchanged

\* lines 52-55: the four sock.recv calls.  Each returns what is there of the
\* peer's next sendall, up to the count asked for: all of it, or, when the
\* connection hands it over in pieces, a part of it.  After a part every
\* later recv starts inside a field.
HRecv(e, whole) ==
    LET h == hs[e]
        n == IF h.pc \in {"recv_plen", "recv_pub"} THEN 1 ELSE 2
        cut == h.cut \/ ~whole
        got == IF cut THEN Item("cut", "", "") ELSE h.inbox[n]
    IN  /\ h.pc \in {"recv_plen", "recv_pub", "recv_slen", "recv_sig"}
        /\ Len(h.inbox) >= n
        /\ hs' = [hs EXCEPT ![e] =
              [h EXCEPT !.cut = cut,
                        !.pc = CASE h.pc = "recv_plen" -> "recv_pub"
                                 [] h.pc = "recv_pub" -> "recv_slen"
                                 [] h.pc = "recv_slen" -> "recv_sig"
                                 [] OTHER -> "check",
                        !.peer_pub_bytes = IF h.pc = "recv_pub" THEN got
                                           ELSE h.peer_pub_bytes,
                        !.peer_sig = IF h.pc = "recv_sig" THEN got ELSE h.peer_sig]]
        /\ UNCHANGED <<devices, since_beacon, svc>> /\ UNCHANGED LUnchanged

\* lines 58-74: the signature check under a pin, X25519PublicKey
\* .from_public_bytes, which raises on bytes that are no 32-byte key, the
\* exchange and HKDF, AEADStream(key).  The session key is a function of the
\* pair of ephemeral keys.
HCheck(e) ==
    LET h == hs[e] IN
        /\ h.pc = "check"
        /\ hs' = [hs EXCEPT ![e] =
              IF Pinned(h.pin) /\ ~Verifies(h.pin, h.peer_sig, h.peer_pub_bytes)
              THEN [h EXCEPT !.pc = "failed", !.why = "signature"]
              ELSE IF h.peer_pub_bytes.kind # "pub"
              THEN [h EXCEPT !.pc = "failed", !.why = "key"]
              ELSE [h EXCEPT !.pc = "done",
                             !.key = {Eph(e), h.peer_pub_bytes.eph},
                             !.stream = <<AEADStream>>]]
        /\ UNCHANGED <<devices, since_beacon, svc>> /\ UNCHANGED LUnchanged

\* the party in between puts a key of its own, or a signature it can make,
\* or a signature it has seen, in place of a field not yet read
Forged == {Item("pub", Eph("mid"), ""), Item("sig", Eph("mid"), Id("mid")),
           Item("sig", Eph("snd"), Id("mid")), Item("sig", Eph("rcv"), Id("mid")),
           Item("sig", Eph("snd"), Id("snd")), Item("sig", "", "")}
HForge(e, i, item) ==
    /\ i \in 1..Len(hs[e].inbox) /\ item.kind = hs[e].inbox[i].kind
    /\ item # hs[e].inbox[i]
    /\ hs[e].pc \in {"send_pub", "send_sig", "recv_plen"}
    /\ hs' = [hs EXCEPT ![e].inbox[i] = item]
    /\ UNCHANGED <<devices, since_beacon, svc>> /\ UNCHANGED LUnchanged

\* the handshake as TransferService runs it, over a connection that delivers
\* in order and unaltered
NextAgree ==
    \/ \E e \in HEnds : key_agree(e, "none")
    \/ \E e \in HEnds : HSend(e)
    \/ \E e \in HEnds, whole \in BOOLEAN : HRecv(e, whole)
    \/ \E e \in HEnds : HCheck(e)
SpecAgree == Init /\ [][NextAgree]_vars
\* key_agree with any pin, over a connection with a party in between
NextHandshake ==
    \/ \E e \in HEnds, pin \in Pins : key_agree(e, pin)
    \/ \E e \in HEnds : HSend(e)
    \/ \E e \in HEnds, whole \in BOOLEAN : HRecv(e, whole)
    \/ \E e \in HEnds : HCheck(e)
    \/ \E e \in HEnds, i \in 1..2, item \in Forged : HForge(e, i, item)
SpecHandshake == Init /\ [][NextHandshake]_vars

\* C35: key_agree checks the peer's signature over the peer's ephemeral key
\* exactly when it is given a pin: with a pin it returns an AEADStream only if
\* the signature verifies under the pin, and raises otherwise; without a pin
\* no signature stops it, and the key is derived from whatever key arrived
C35_VerifyIffPinned ==
    \A e \in HEnds :
        LET h == hs[e] IN
            /\ h.pc = "done" /\ h.pin # "none" =>
                  Verifies(h.pin, h.peer_sig, h.peer_pub_bytes)
            /\ h.pc = "failed" => h.stream = <<>>
            /\ h.why = "signature" =>
                  h.pin # "none" /\ ~Verifies(h.pin, h.peer_sig, h.peer_pub_bytes)
            /\ (/\ h.pc \in {"done", "failed"} /\ h.pin = "none"
                /\ h.peer_pub_bytes.kind = "pub") =>
                  /\ h.pc = "done" /\ h.stream = <<AEADStream>>
                  /\ h.key = {Eph(e), h.peer_pub_bytes.eph}

\* an end without a pin has derived a key with the party in between, whose
\* signature it did not look at, while an end with a pin has refused one
C35_Witness ==
    /\ hs["rcv"].pc = "done" /\ hs["rcv"].pin = "none"
    /\ hs["rcv"].key = {Eph("rcv"), Eph("mid")}
    /\ hs["rcv"].peer_sig.signer = Id("mid")
    /\ hs["snd"].pc = "failed" /\ hs["snd"].why = "signature"

\* C40: when both ends of a connection run key_agree, each sending its key
\* and signature before it reads, neither waits for ever, both return, with
\* the same session key and their counters at 0, and the stream is then at a
\* frame boundary, every byte of the handshake read
C40_HandshakeAgrees ==
    /\ \A e \in HEnds :
          /\ hs[e].pc # "failed"
          /\ hs[e].pc \in {"recv_plen", "recv_pub"} /\ Len(hs[e].inbox) < 1 =>
                hs[Other(e)].pc \in {"idle", "send_pub"}
          /\ hs[e].pc \in {"recv_slen", "recv_sig"} /\ Len(hs[e].inbox) < 2 =>
                hs[Other(e)].pc \in {"idle", "send_pub", "send_sig"}
          /\ hs[e].pc = "done" => ~hs[e].cut /\ hs[e].stream = <<AEADStream>>
    /\ hs["snd"].pc = "done" /\ hs["rcv"].pc = "done" => hs["snd"].key = hs["rcv"].key

\* ------------------------------------------------------------ inbound rows
\* C36: a GC pass does not delete the progress row of an inbound transfer
\* that is running, a row keyed by the peer's host, while the device of that
\* host is still among the devices after the pass
C36_InboundRowKept ==
    [][GcPass =>
          \A r \in RWorkers :
              (/\ receiver[r].pc \in {"header", "chunks"}
               /\ receiver[r].host \in DOMAIN progress
               /\ DeviceId(receiver[r].host, ListenPort) \in DOMAIN devices') =>
                  receiver[r].host \in DOMAIN progress']_vars

\* ------------------------------------------------------------ two inbound connections
\* _server_loop starts one _handle_peer thread per accepted connection; two of
\* them open at once, from one host or from two
InboundWorkers == {"r1", "r2"}

NextInbound ==
    \E w \in InboundWorkers :
        \/ RecvWorker(w)
        \/ RAccept(w, "10.0.0.3")
InitInbound == InitWorkers(SWorkers, InboundWorkers) /\ cfg = AppWiring
SpecInbound == InitInbound /\ [][NextInbound]_vars

\* C37: while a receive worker is ingesting files, no step of another receive
\* worker changes or removes the progress, the byte count or the status
\* published for the first one's connection.
C37_WorkersIsolated ==
    [][LET At(f, k) == IF k \in DOMAIN f THEN <<f[k]>> ELSE <<>>
       IN \A a \in InboundWorkers, b \in InboundWorkers :
              (/\ a # b
               /\ receiver'[a] # receiver[a]
               /\ receiver[b].pc \in {"header", "chunks"}) =>
                  /\ At(progress', receiver[b].host) = At(progress, receiver[b].host)
                  /\ At(transfer_bytes', receiver[b].host) = At(transfer_bytes, receiver[b].host)
                  /\ At(transfer_status', receiver[b].host) = At(transfer_status, receiver[b].host)]_vars

\* the same with the two connections coming from two hosts
TwoHostsIsolated ==
    [][LET At(f, k) == IF k \in DOMAIN f THEN <<f[k]>> ELSE <<>>
       IN \A a \in InboundWorkers, b \in InboundWorkers :
              (/\ a # b
               /\ receiver'[a] # receiver[a]
               /\ receiver[a].host # receiver[b].host /\ receiver'[a].host # receiver[b].host
               /\ receiver[b].pc \in {"header", "chunks"}) =>
                  /\ At(progress', receiver[b].host) = At(progress, receiver[b].host)
                  /\ At(transfer_bytes', receiver[b].host) = At(transfer_bytes, receiver[b].host)
                  /\ At(transfer_status', receiver[b].host) = At(transfer_status, receiver[b].host)]_vars

\* ------------------------------------------------------------ overlapping sends
\* the send button stays enabled while a send runs (update_send_btn looks at
\* the selection only), so a second on_send can start a second send-ui thread
SendThreads == {"s1", "s2"}

NextOverlap ==
    \/ Beacon1
    \/ pick_files(<<0>>)
    \/ add_selected_device(DeviceId(Peer1, ListenPort))
    \/ \E w \in SendThreads :
          \/ on_send(w)
          \/ SNextDevice(w)
          \/ SStart(w)
          \/ \E o \in {"fail", "reject"} : SConnect(w, o)
          \/ SRejectStatus(w)
          \/ SRejectProgress(w)
          \/ SExcept(w)
          \/ SExhaustStatus(w)
          \/ SExhaustClear(w)
          \/ SFinish(w)
InitOverlap == InitWorkers(SendThreads, RWorkers) /\ cfg = AppWiring
SpecOverlap == InitOverlap /\ [][NextOverlap]_vars

\* C38: when the last of the send-ui threads started by on_send finishes, the
\* local status is the one that was in place before the first of them started.
C38_StatusRestored ==
    [][\A w \in SendThreads :
          (SFinish(w) /\ \A x \in SendThreads : sender'[x].pc = "idle") =>
              status' = sender[w].before]_vars

\* ------------------------------------------------------------ order of the frames
\* both ends as in SpecPipe, and a connecting party that is not send_to: its
\* first frame is no send_request, or it closes before sending one
StrayFrames == {Seal(0, OtherMsg), Eof}
PStrayAccept(r) == (\A w \in SWorkers : sender[w].pc = "idle") /\ AConnect(r, Peer1)
PStray(r, f) == (\A w \in SWorkers : sender[w].pc = "idle") /\ ARequest(r, f)
NextOrder ==
    \/ NextPipe
    \/ \E r \in RWorkers : PStrayAccept(r)
    \/ \E r \in RWorkers, f \in StrayFrames : PStray(r, f)
SpecOrder == Init /\ [][NextOrder]_vars

\* C39: on a connection _handle_peer sends exactly one response, after it has
\* read the send_request and before it reads a file frame; send_to writes no
\* file_header and no file_chunk before it has read a response with accept
\* true, and each file_chunk comes after the file_header of its file.
C39_ProtocolOrder ==
    /\ \A r \in RWorkers :
          /\ Len(back) <= 1
          /\ receiver[r].pc = "done" => Len(back) = 1
          /\ back # <<>> => /\ dec_log[r] # <<>> /\ dec_log[r][1].res.ok
                            /\ IsRequest(dec_log[r][1].res.msg)
          /\ Len(dec_log[r]) > 1 => back # <<>>
    /\ \A w \in SWorkers :
          /\ sender[w].out # <<>> => back # <<>> /\ back[1].msg.accept
          /\ \A k \in 1..Len(sender[w].out) :
                sender[w].out[k][1] = "file_chunk" =>
                    \E j \in 1..(k - 1) : /\ sender[w].out[j][1] = "file_header"
                                          /\ sender[w].out[j][2] = sender[w].out[k][2]

\* C39 as the code has it: at most one response on a connection, none when the
\* first frame is no send_request or cannot be read, and exactly one by the
\* time a connection whose send_request was read is done, sent before any file
\* frame is read; the sending end as stated.
C39_OrderAtMostOne ==
    /\ \A r \in RWorkers :
          LET ReadRequest == /\ dec_log[r] # <<>> /\ dec_log[r][1].res.ok
                             /\ IsRequest(dec_log[r][1].res.msg)
          IN  /\ Len(back) <= 1
              /\ receiver[r].pc = "done" => (Len(back) = 1 <=> ReadRequest)
              /\ receiver[r].pc = "done" /\ receiver[r].result = "closed" => back = <<>>
              /\ back # <<>> => ReadRequest
              /\ Len(dec_log[r]) > 1 => back # <<>>
    /\ \A w \in SWorkers :
          /\ sender[w].out # <<>> => back # <<>> /\ back[1].msg.accept
          /\ \A k \in 1..Len(sender[w].out) :
                sender[w].out[k][1] = "file_chunk" =>
                    \E j \in 1..(k - 1) : /\ sender[w].out[j][1] = "file_header"
                                          /\ sender[w].out[j][2] = sender[w].out[k][2]

\* an accepted connection with a chunk out and read, after one response
C39_Witness ==
    \E w \in SWorkers, r \in RWorkers :
        /\ Len(back) = 1 /\ back[1].msg.accept
        /\ \E k \in 1..Len(sender[w].out) : sender[w].out[k][1] = "file_chunk"
        /\ Len(dec_log[r]) > 2 /\ receiver[r].pc = "done"

====
